---------------------------- MODULE Spec2Model ----------------------------
(***************************************************************************)
(* Model of git-assistant-mcp: the Git state scraper (state_scraper.py),   *)
(* the GitContext model with its validators (git_context.py) and the       *)
(* command planning / execution path of the MCP wrapper (mcp_wrapper.py).  *)
(*                                                                         *)
(* Python strings are sequences of one-character strings, so that          *)
(* slicing, strip(), split() and the substring test `in` are computed as   *)
(* the code computes them.                                                 *)
(***************************************************************************)
EXTENDS Integers, Sequences, FiniteSets, TLC

VARIABLES
    \* ---- StateScraper._parse_git_status called on a status text
    status_output,              \* the text handed to _parse_git_status
    status_pc,                  \* "input" | "parsed"
    working_directory_status,   \* first list returned by _parse_git_status
    staging_area_status,        \* second list returned by _parse_git_status
    \* ---- GitContext(...) constructed from caller-supplied values
    ctx_args,                   \* the keyword arguments of the constructor
    ctx_pc,                     \* "args" | "constructed"
    git_context,                \* the constructed GitContext, or NoContext
    \* ---- GitAssistantMCP: LLMResponse -> execution plan -> execution
    llm_args,                   \* command and is_destructive given to LLMResponse(...)
    require_confirmation,       \* self.require_confirmation (settings)
    exec_pc,                    \* "args" | "response" | "planned" | "done" | "compiled" | "error"
    llm_response,               \* the validated LLMResponse
    execution_plan,             \* result of _prepare_execution_plan
    execution_result,           \* result of _execute_command
    subprocess_calls,           \* the calls of subprocess.run in _execute_command, in order
    returned_response,          \* the dictionary handed back to the caller
    \* ---- StateScraper.scrape_state called on a repository
    repository,                 \* what the repository answers to each Git command
    scrape_pc,                  \* "idle" | "done" | "responded"
    scrape_result,              \* the outcome of scrape_state
    \* ---- one call of another StateScraper method
    call_args,                  \* the method called and what it is called with
    call_pc,                    \* "args" | "done"
    call_result,                \* what the call returned or raised
    \* ---- LLMProviderFactory: calls of get_provider and refresh_provider
    settings,                   \* which settings fields are non-empty
    current_provider,           \* self._current_provider, named by self._provider_name
    provider_calls              \* the calls made so far, each with what it returned

statusVars == <<status_output, status_pc, working_directory_status, staging_area_status>>
ctxVars == <<ctx_args, ctx_pc, git_context>>
execVars == <<llm_args, require_confirmation, exec_pc, llm_response, execution_plan,
              execution_result, subprocess_calls,
              returned_response>>
scrapeVars == <<repository, scrape_pc, scrape_result>>
callVars == <<call_args, call_pc, call_result>>
providerVars == <<settings, current_provider, provider_calls>>
vars == <<statusVars, ctxVars, execVars, scrapeVars, callVars, providerVars>>

(***************************************************************************)
(* Bounds of the model.                                                    *)
(***************************************************************************)
MaxLines == 2       \* lines of a status text
MaxFiles == 2       \* entries of a caller-supplied file list
MaxCount == 2       \* largest caller-supplied aggregate count
MaxCalls == 2       \* calls made on one provider factory

(***************************************************************************)
(* Python string operations on sequences of characters.                    *)
(***************************************************************************)
Whitespace == {" ", "\n", "\t"}

RECURSIVE LStrip(_)
LStrip(s) == IF s # <<>> /\ Head(s) \in Whitespace THEN LStrip(Tail(s)) ELSE s

RECURSIVE RStrip(_)
RStrip(s) ==
    IF s # <<>> /\ s[Len(s)] \in Whitespace THEN RStrip(SubSeq(s, 1, Len(s) - 1)) ELSE s

\* str.strip()
Strip(s) == RStrip(LStrip(s))

\* s[n:] with n >= 0
SliceFrom(s, n) == SubSeq(s, n + 1, Len(s))

\* s[:n] with n >= 0
SliceTo(s, n) == SubSeq(s, 1, IF n < Len(s) THEN n ELSE Len(s))

\* s.startswith(p)
StartsWith(s, p) == Len(s) >= Len(p) /\ SubSeq(s, 1, Len(p)) = p

\* s.find(p) + 1: the 1-based place of the first occurrence of p in s, 0 if none
Find(s, p) ==
    LET hits == {i \in 1..(Len(s) - Len(p) + 1) : SubSeq(s, i, i + Len(p) - 1) = p}
    IN  IF hits = {} THEN 0 ELSE CHOOSE i \in hits : \A j \in hits : i <= j

\* p in s
Contains(s, p) == Find(s, p) # 0

\* s.split(sep) for a one-character sep: always at least one piece
RECURSIVE Split(_, _)
Split(s, sep) ==
    LET i == Find(s, <<sep>>)
    IN  IF i = 0 THEN <<s>>
        ELSE <<SubSeq(s, 1, i - 1)>> \o Split(SliceFrom(s, i), sep)

\* sep.join(pieces) for a one-character sep
RECURSIVE Join(_, _)
Join(pieces, sep) ==
    IF pieces = <<>> THEN <<>>
    ELSE IF Len(pieces) = 1 THEN pieces[1]
    ELSE pieces[1] \o <<sep>> \o Join(Tail(pieces), sep)

Range(f) == {f[i] : i \in DOMAIN f}

\* sequences over S of length at most n
SeqUpTo(S, n) == UNION {[1..k -> S] : k \in 0..n}

\* len([x for x in s if x in keep])
CountIn(s, keep) == Cardinality({i \in DOMAIN s : s[i] \in keep})

\* Optional[str]: None, or a string
None == [is_none |-> TRUE, text |-> <<>>]
Some(t) == [is_none |-> FALSE, text |-> t]

\* the string literals of state_scraper.py
ScraperText ==
    [arrow |-> <<" ", "-", ">", " ">>,
     renamed_from |-> <<"r", "e", "n", "a", "m", "e", "d", " ", "f", "r", "o", "m", " ">>,
     star_sp |-> <<"*", " ">>,
     ahead |-> <<"a", "h", "e", "a", "d">>,
     behind |-> <<"b", "e", "h", "i", "n", "d">>,
     HEAD |-> <<"H", "E", "A", "D">>,
     deco_arrow |-> <<"-", ">">>,
     on |-> <<" ", "o", "n", " ">>,
     stash_at |-> <<"s", "t", "a", "s", "h", "@", "{">>,
     stash_close |-> <<"}", ":">>,
     https |-> <<"h", "t", "t", "p", "s", ":", "/", "/">>,
     ssh |-> <<"s", "s", "h", ":", "/", "/">>,
     git_url |-> <<"g", "i", "t", ":", "/", "/">>,
     push |-> <<"p", "u", "s", "h">>,
     fetch |-> <<"f", "e", "t", "c", "h">>,
     unknown_error |-> <<"U", "n", "k", "n", "o", "w", "n", " ", "e", "r", "r", "o", "r">>,
     timed_out |->
         <<"C", "o", "m", "m", "a", "n", "d", " ", "t", "i", "m", "e", "d", " ", "o", "u", "t">>,
     unknown_branch |-> <<"u", "n", "k", "n", "o", "w", "n">>,
     Unknown_author |-> <<"U", "n", "k", "n", "o", "w", "n">>]

(***************************************************************************)
(* StateScraper: the status parser.                                        *)
(***************************************************************************)

\* _get_status_description: status_map.get(status_code, 'unknown')
get_status_description(status_code) ==
    CASE status_code = "M" -> "modified"
      [] status_code = "A" -> "added"
      [] status_code = "D" -> "deleted"
      [] status_code = "R" -> "renamed"
      [] status_code = "C" -> "copied"
      [] status_code = "U" -> "unmerged"
      [] status_code = "?" -> "untracked"
      [] OTHER -> "unknown"

\* _get_rename_copy_details
get_rename_copy_details(file_path) ==
    IF Contains(file_path, ScraperText.arrow)
    THEN Some(ScraperText.renamed_from \o SubSeq(file_path, 1, Find(file_path, ScraperText.arrow) - 1))
    ELSE None

\* the `has_conflicts = ...` line of _create_file_status
file_has_conflicts(index_status, working_status) ==
    index_status = "U" \/ working_status = "U"

\* classify_status with the staged-only branch reading the worktree character
classify_status_worktree_only(index_status, working_status) ==
    IF index_status = " " /\ working_status = "?"
    THEN [status |-> "untracked", is_tracked |-> FALSE, is_staged |-> FALSE,
          change_type |-> "None"]
    ELSE IF index_status = " " /\ working_status # " "
    THEN [status |-> get_status_description(working_status), is_tracked |-> TRUE,
          is_staged |-> FALSE, change_type |-> "unstaged"]
    ELSE IF index_status # " " /\ working_status = " "
    THEN [status |-> get_status_description(working_status), is_tracked |-> TRUE,
          is_staged |-> TRUE, change_type |-> "staged"]
    ELSE [status |-> get_status_description(working_status), is_tracked |-> TRUE,
          is_staged |-> TRUE, change_type |-> "both"]

\* _create_file_status: the if / elif / elif / else classification
classify_status(index_status, working_status) ==
    IF index_status = " " /\ working_status = "?"
    THEN [status |-> "untracked", is_tracked |-> FALSE, is_staged |-> FALSE,
          change_type |-> "None"]
    ELSE IF index_status = " " /\ working_status # " "
    THEN [status |-> get_status_description(working_status), is_tracked |-> TRUE,
          is_staged |-> FALSE, change_type |-> "unstaged"]
    ELSE IF index_status # " " /\ working_status = " "
    THEN [status |-> get_status_description(index_status), is_tracked |-> TRUE,
          is_staged |-> TRUE, change_type |-> "staged"]
    ELSE [status |-> get_status_description(working_status), is_tracked |-> TRUE,
          is_staged |-> TRUE, change_type |-> "both"]

\* _create_file_status
create_file_status(file_path, index_status, working_status) ==
    LET c == classify_status(index_status, working_status)
    IN  [file_path |-> file_path,
         status |-> c.status,
         is_staged |-> c.is_staged,
         is_tracked |-> c.is_tracked,
         change_type |-> c.change_type,
         details |-> IF index_status \in {"R", "C"} \/ working_status \in {"R", "C"}
                     THEN get_rename_copy_details(file_path)
                     ELSE None,
         has_conflicts |-> file_has_conflicts(index_status, working_status)]

\* goes_to_working_directory leaving out what goes to the staging area
goes_to_working_directory_unless_staged(index_status, working_status) ==
    working_status # " " /\ index_status = " "

\* the `if working_status != ' '` test that appends to working_directory_status
goes_to_working_directory(index_status, working_status) == working_status # " "

\* the `if index_status != ' '` test that appends to staging_area_status
goes_to_staging_area(index_status, working_status) == index_status # " "

\* the body of the `for line in ...` loop of _parse_git_status, folded over the lines
RECURSIVE parse_status_lines(_, _, _)
parse_status_lines(lines, wd, sa) ==
    IF lines = <<>> THEN [working_directory_status |-> wd, staging_area_status |-> sa]
    ELSE
        LET line == Head(lines)
            status_code == SliceTo(line, 2)
            file_path == SliceFrom(line, 3)
        IN  IF Strip(line) = <<>> \/ file_path = <<>>
            THEN parse_status_lines(Tail(lines), wd, sa)
            ELSE
                LET index_status == status_code[1]
                    working_status == status_code[2]
                    file_status == create_file_status(file_path, index_status, working_status)
                IN  parse_status_lines(
                        Tail(lines),
                        IF goes_to_working_directory(index_status, working_status)
                        THEN Append(wd, file_status) ELSE wd,
                        IF goes_to_staging_area(index_status, working_status)
                        THEN Append(sa, file_status) ELSE sa)

\* _parse_git_status
parse_git_status(text) == parse_status_lines(Split(text, "\n"), <<>>, <<>>)

(***************************************************************************)
(* The status texts the parser is applied to: every pair of the status     *)
(* characters of tracked files with a plain path, the untracked line `??`, *)
(* a line with only the worktree `?`, rename and copy lines with an arrow  *)
(* path, a code without a path, a lone code character and a blank line.    *)
(***************************************************************************)
StatusChars == {" ", "M", "A", "D", "R", "C", "U", "T"}
PlainPath == <<"f">>
ArrowPath == <<"a", " ", "-", ">", " ", "b">>
UntrackedLine == <<"?", "?", " ">> \o PlainPath

StatusLines ==
    {<<x, y, " ">> \o PlainPath : x \in StatusChars, y \in StatusChars}
    \cup {UntrackedLine, <<" ", "?", " ">> \o PlainPath}
    \cup {<<x, " ", " ">> \o ArrowPath : x \in {"R", "C", "M"}}
    \cup {<<"M", " ", " ">>, <<"M">>, <<>>}

StatusTexts == {Join(ls, "\n") : ls \in SeqUpTo(StatusLines, MaxLines)}

(***************************************************************************)
(* More string operations used by the branch, remote, log and stash        *)
(* parsers.                                                                *)
(***************************************************************************)

Digits == {"0", "1", "2", "3", "4", "5", "6", "7", "8", "9"}
HexDigits == Digits \cup {"a", "b", "c", "d", "e", "f"}

\* the number of leading characters of s that are in set S
RECURSIVE PrefixLen(_, _)
PrefixLen(s, S) == IF s # <<>> /\ Head(s) \in S THEN 1 + PrefixLen(Tail(s), S) ELSE 0

\* str.split(): the maximal runs of non-whitespace characters
RECURSIVE SplitWs(_)
SplitWs(s) ==
    LET t == LStrip(s)
        k == IF t = <<>> THEN 0
             ELSE CHOOSE j \in 1..Len(t) :
                      /\ \A i \in 1..j : t[i] \notin Whitespace
                      /\ (j = Len(t) \/ t[j + 1] \in Whitespace)
    IN  IF t = <<>> THEN <<>> ELSE <<SubSeq(t, 1, k)>> \o SplitWs(SliceFrom(t, k))

\* s.split(sep) for a separator of any length
RECURSIVE SplitStr(_, _)
SplitStr(s, sep) ==
    LET i == Find(s, sep)
    IN  IF i = 0 THEN <<s>>
        ELSE <<SubSeq(s, 1, i - 1)>> \o SplitStr(SliceFrom(s, i + Len(sep) - 1), sep)

\* s.strip('()')
RECURSIVE StripParens(_)
StripParens(s) ==
    IF s # <<>> /\ Head(s) \in {"(", ")"} THEN StripParens(Tail(s))
    ELSE IF s # <<>> /\ s[Len(s)] \in {"(", ")"} THEN StripParens(SubSeq(s, 1, Len(s) - 1))
    ELSE s

\* int(s) for a string of digits
RECURSIVE ToInt(_)
ToInt(ds) ==
    IF ds = <<>> THEN 0
    ELSE 10 * ToInt(SubSeq(ds, 1, Len(ds) - 1))
         + (CHOOSE v \in 0..9 : <<"0", "1", "2", "3", "4", "5", "6", "7", "8", "9">>[v + 1]
                                    = ds[Len(ds)])

\* search_count taking the first number, whatever word follows it
search_count_any_word(s, word) ==
    LET starts == {i \in 1..Len(s) : s[i] \in Digits}
    IN  IF starts = {} THEN <<>>
        ELSE LET i == CHOOSE x \in starts : \A y \in starts : x <= y
             IN  SubSeq(s, i, i - 1 + PrefixLen(SliceFrom(s, i - 1), Digits))

\* re.search(r'(\d+)\s+<word>', s): group 1 of the leftmost match, or <<>> for no match
search_count(s, word) ==
    LET matches(i) ==
            LET d == PrefixLen(SliceFrom(s, i - 1), Digits)
                w == PrefixLen(SliceFrom(s, i - 1 + d), Whitespace)
            IN  d >= 1 /\ w >= 1 /\ StartsWith(SliceFrom(s, i - 1 + d + w), word)
        starts == {i \in 1..Len(s) : matches(i)}
    IN  IF starts = {} THEN <<>>
        ELSE LET i == CHOOSE x \in starts : \A y \in starts : x <= y
             IN  SubSeq(s, i, i - 1 + PrefixLen(SliceFrom(s, i - 1), Digits))

(***************************************************************************)
(* BranchInfo and the branch parsers.                                      *)
(***************************************************************************)

\* BranchInfo fields declared without a default
BranchInfoRequired == {"name", "is_current", "has_remote", "is_up_to_date"}

\* BranchInfo(**kw): pydantic raises ValidationError when a required field is missing
BranchInfoInit(kw) ==
    IF BranchInfoRequired \subseteq DOMAIN kw
    THEN [ok |-> TRUE,
          value |-> [name |-> kw.name,
                     is_current |-> kw.is_current,
                     has_remote |-> kw.has_remote,
                     remote_name |-> IF "remote_name" \in DOMAIN kw THEN kw.remote_name ELSE None,
                     ahead_count |-> IF "ahead_count" \in DOMAIN kw THEN kw.ahead_count ELSE 0,
                     behind_count |-> IF "behind_count" \in DOMAIN kw THEN kw.behind_count ELSE 0,
                     is_up_to_date |-> kw.is_up_to_date]]
    ELSE [ok |-> FALSE]

\* one line of _parse_branches: <<BranchInfo>>, or <<>> for a skipped line
parse_branch_line(raw_line) ==
    LET line0 == Strip(raw_line)
        is_current == StartsWith(line0, ScraperText.star_sp)
        line == IF is_current THEN SliceFrom(line0, 2) ELSE line0
        parts == SplitWs(line)
    IN  IF line0 = <<>> \/ parts = <<>> THEN <<>>
        ELSE
            LET bracketed == /\ Len(parts) > 1
                             /\ StartsWith(parts[2], <<"[">>)
                             /\ parts[2][Len(parts[2])] = "]"
                remote_info == IF bracketed THEN SubSeq(parts[2], 2, Len(parts[2]) - 1)
                               ELSE <<>>
                has_remote == bracketed /\ Contains(remote_info, <<"/">>)
                tracking_info == IF has_remote /\ Len(parts) > 2
                                 THEN Join(SubSeq(parts, 3, Len(parts)), " ") ELSE <<>>
                ahead_match == search_count(tracking_info, ScraperText.ahead)
                behind_match == search_count(tracking_info, ScraperText.behind)
                ahead_count == IF ahead_match # <<>> THEN ToInt(ahead_match) ELSE 0
                behind_count == IF behind_match # <<>> THEN ToInt(behind_match) ELSE 0
                b == BranchInfoInit(
                         [name |-> parts[1],
                          is_current |-> is_current,
                          has_remote |-> has_remote,
                          remote_name |-> IF has_remote
                                          THEN Some(Split(remote_info, "/")[2]) ELSE None,
                          ahead_count |-> ahead_count,
                          behind_count |-> behind_count,
                          is_up_to_date |-> (ahead_count = 0 /\ behind_count = 0)])
            IN  IF b.ok THEN <<b.value>> ELSE <<>>

RECURSIVE parse_branch_lines(_)
parse_branch_lines(lines) ==
    IF lines = <<>> THEN <<>>
    ELSE parse_branch_line(Head(lines)) \o parse_branch_lines(Tail(lines))

\* _parse_branches
parse_branches(branch_output) == parse_branch_lines(Split(branch_output, "\n"))

\* one line of _parse_remote_branches
parse_remote_branch_line(raw_line) ==
    LET line == Strip(raw_line)
        parts == Split(line, "/")
    IN  IF line = <<>> \/ Contains(line, ScraperText.deco_arrow) \/ Len(parts) < 2 THEN <<>>
        ELSE LET b == BranchInfoInit(
                          [name |-> Join(Tail(parts), "/"),
                           is_current |-> FALSE,
                           has_remote |-> TRUE,
                           remote_name |-> Some(parts[1]),
                           ahead_count |-> 0,
                           behind_count |-> 0,
                           is_up_to_date |-> TRUE])
             IN  IF b.ok THEN <<b.value>> ELSE <<>>

RECURSIVE parse_remote_branch_lines(_)
parse_remote_branch_lines(lines) ==
    IF lines = <<>> THEN <<>>
    ELSE parse_remote_branch_line(Head(lines)) \o parse_remote_branch_lines(Tail(lines))

\* _parse_remote_branches
parse_remote_branches(remote_branch_output) ==
    parse_remote_branch_lines(Split(remote_branch_output, "\n"))

(***************************************************************************)
(* The remote parser.                                                      *)
(***************************************************************************)

\* _determine_url_type
determine_url_type(url) ==
    IF StartsWith(url, ScraperText.https) THEN "https"
    ELSE IF StartsWith(url, ScraperText.ssh) \/ Contains(url, <<"@">>) THEN "ssh"
    ELSE IF StartsWith(url, ScraperText.git_url) THEN "git"
    ELSE "unknown"

\* the loop of _parse_remotes over the lines; remote_data is kept as the list of
\* its values in insertion order
RECURSIVE parse_remote_lines(_, _)
parse_remote_lines(lines, remote_data) ==
    IF lines = <<>> THEN remote_data
    ELSE
        LET line == Head(lines)
            parts == SplitWs(line)
        IN  IF Strip(line) = <<>> \/ Len(parts) < 3
            THEN parse_remote_lines(Tail(lines), remote_data)
            ELSE
                LET remote_name == parts[1]
                    operation == StripParens(parts[3])
                    known == \E i \in DOMAIN remote_data : remote_data[i].name = remote_name
                    data == IF known THEN remote_data
                            ELSE Append(remote_data,
                                        [name |-> remote_name,
                                         url |-> parts[2],
                                         url_type |-> determine_url_type(parts[2]),
                                         is_default_push |-> FALSE,
                                         is_default_pull |-> FALSE])
                    marked == [i \in DOMAIN data |->
                                  IF data[i].name # remote_name THEN data[i]
                                  ELSE IF operation = ScraperText.push
                                       THEN [data[i] EXCEPT !.is_default_push = TRUE]
                                  ELSE IF operation = ScraperText.fetch
                                       THEN [data[i] EXCEPT !.is_default_pull = TRUE]
                                  ELSE data[i]]
                IN  parse_remote_lines(Tail(lines), marked)

\* _parse_remotes stopping after the first line
parse_remotes_first_line_only(remote_output) ==
    parse_remote_lines(SubSeq(Split(remote_output, "\n"), 1, 1), <<>>)

\* _parse_remotes
parse_remotes(remote_output) == parse_remote_lines(Split(remote_output, "\n"), <<>>)

(***************************************************************************)
(* GitContext and its validators (pydantic runs them in field order, with  *)
(* the fields validated so far in `values`).                               *)
(***************************************************************************)

\* validate_conflicts trusting the caller's value
validate_conflicts_trusting(v, values) == v

\* GitContext.validate_conflicts
validate_conflicts(v, values) ==
    IF "working_directory_status" \in DOMAIN values
    THEN LET file_conflicts ==
                 \E i \in DOMAIN values.working_directory_status :
                     values.working_directory_status[i].has_conflicts
         IN  IF file_conflicts /\ ~v THEN TRUE ELSE v
    ELSE v

\* len([f for f in files if f.status in ['modified', 'deleted', 'renamed']])
count_modified(files) ==
    CountIn(files, {f \in Range(files) : f.status \in {"modified", "deleted", "renamed"}})

\* len([f for f in files if f.is_staged])
count_staged(files) == CountIn(files, {f \in Range(files) : f.is_staged})

\* len([f for f in files if f.status == 'untracked'])
count_untracked(files) == CountIn(files, {f \in Range(files) : f.status = "untracked"})

\* validate_file_counts trusting the caller's value
validate_file_counts_trusting(v, values, field_name) == v

\* GitContext.validate_file_counts
validate_file_counts(v, values, field_name) ==
    IF "working_directory_status" \in DOMAIN values
    THEN CASE field_name = "modified_files" ->
                  LET actual_count ==
                          count_modified(values.working_directory_status)
                  IN  IF actual_count # v THEN actual_count ELSE v
           [] field_name = "staged_files" ->
                  LET actual_count == count_staged(values.staging_area_status)
                  IN  IF actual_count # v THEN actual_count ELSE v
           [] field_name = "untracked_files" ->
                  LET actual_count == count_untracked(values.working_directory_status)
                  IN  IF actual_count # v THEN actual_count ELSE v
           [] OTHER -> v
    ELSE v

\* GitContext(**kw): the fields the validators read or write
GitContextInit(kw) ==
    LET values == [working_directory_status |-> kw.working_directory_status,
                   staging_area_status |-> kw.staging_area_status]
    IN  [working_directory_status |-> kw.working_directory_status,
         staging_area_status |-> kw.staging_area_status,
         has_conflicts |-> validate_conflicts(kw.has_conflicts, values),
         total_files |-> kw.total_files,
         modified_files |-> validate_file_counts(kw.modified_files, values, "modified_files"),
         staged_files |-> validate_file_counts(kw.staged_files, values, "staged_files"),
         untracked_files |-> validate_file_counts(kw.untracked_files, values, "untracked_files")]

NoContext == [working_directory_status |-> <<>>, staging_area_status |-> <<>>,
              has_conflicts |-> FALSE, total_files |-> -1, modified_files |-> -1,
              staged_files |-> -1, untracked_files |-> -1]

\* FileStatus values a caller can put in the lists
WorkingSamples ==
    {create_file_status(PlainPath, " ", "M"),
     create_file_status(PlainPath, " ", "?"),
     create_file_status(PlainPath, "U", "U")}

StagingSamples ==
    {create_file_status(PlainPath, "M", " "),
     [create_file_status(PlainPath, "A", " ") EXCEPT !.is_staged = FALSE]}

ContextArgs ==
    [working_directory_status : SeqUpTo(WorkingSamples, MaxFiles),
     staging_area_status : SeqUpTo(StagingSamples, MaxFiles),
     has_conflicts : BOOLEAN,
     total_files : {0},
     modified_files : 0..MaxCount,
     staged_files : 0..MaxCount,
     untracked_files : 0..MaxCount]

(***************************************************************************)
(* StateScraper._run_git_command.  What subprocess.run answers is an input *)
(* of the model: an exit code with the two output texts, or a timeout.     *)
(***************************************************************************)
NoError == [kind |-> "none", command |-> "", error_output |-> <<>>, return_code |-> 0]

\* raise GitCommandError(command, error_output, return_code)
GitCommandError(command, error_output, return_code) ==
    [kind |-> "GitCommandError", command |-> command, error_output |-> error_output,
     return_code |-> return_code]

\* an exception of another class leaving scrape_state
OtherError(kind) == [kind |-> kind, command |-> "", error_output |-> <<>>, return_code |-> 0]

\* ' '.join(full_command), with full_command = [self.git_path] + command
full_command(command) == "git " \o command

\* run_git_command returning the output of a failed command
run_git_command_ignoring_failure(command, answer) ==
    [raised |-> FALSE, stdout |-> Strip(answer.stdout), error |-> NoError]

\* run_git_command reporting a timeout like a failed exit
run_git_command_timeout_as_exit(command, answer) ==
    IF answer.timed_out \/ answer.returncode # 0
    THEN [raised |-> TRUE, stdout |-> <<>>,
          error |-> GitCommandError(full_command(command),
                                    IF Strip(answer.stderr) # <<>> THEN Strip(answer.stderr)
                                    ELSE ScraperText.unknown_error,
                                    answer.returncode)]
    ELSE [raised |-> FALSE, stdout |-> Strip(answer.stdout), error |-> NoError]

\* _run_git_command
run_git_command(command, answer) ==
    IF answer.timed_out
    THEN [raised |-> TRUE, stdout |-> <<>>,
          error |-> GitCommandError(full_command(command), ScraperText.timed_out, -1)]
    ELSE IF answer.returncode # 0
    THEN [raised |-> TRUE, stdout |-> <<>>,
          error |-> GitCommandError(full_command(command),
                                    IF Strip(answer.stderr) # <<>> THEN Strip(answer.stderr)
                                    ELSE ScraperText.unknown_error,
                                    answer.returncode)]
    ELSE [raised |-> FALSE, stdout |-> Strip(answer.stdout), error |-> NoError]

\* the subprocess did not exit with code zero
answer_failed(answer) == answer.timed_out \/ answer.returncode # 0

\* one call of _run_git_command, recorded in the log of the caller: `calls` is
\* every command run, with what the subprocess answered and what
\* _run_git_command made of it; `failed` names those whose subprocess did not
\* exit with zero
Git(log, command, answer) ==
    LET r == run_git_command(command, answer)
    IN  [log |-> [calls |-> Append(log.calls,
                                   [command |-> command, answer |-> answer,
                                    raised |-> r.raised, stdout |-> r.stdout,
                                    error |-> r.error]),
                  failed |-> IF answer_failed(answer) THEN Append(log.failed, command)
                             ELSE log.failed],
         raised |-> r.raised,
         stdout |-> r.stdout,
         error |-> r.error]

(***************************************************************************)
(* The log and stash parsers, with the lookups they run per entry.         *)
(***************************************************************************)

\* datetime values: a parsed text, or the clock at the time of the call
Now == [is_now |-> TRUE, text |-> <<>>]
DateOf(text) == [is_now |-> FALSE, text |-> text]

\* the texts datetime.fromisoformat accepts, among those Git answers with here
IsoFormatTexts == {<<"2", "0", "2", "4", "-", "0", "1", "-", "0", "1">>}

\* s.replace('Z', '+00:00')
RECURSIVE replace_Z(_)
replace_Z(s) ==
    IF s = <<>> THEN <<>>
    ELSE (IF Head(s) = "Z" THEN <<"+", "0", "0", ":", "0", "0">> ELSE <<Head(s)>>)
         \o replace_Z(Tail(s))

\* datetime.fromisoformat(s): raises ValueError on a text it does not accept
fromisoformat(s) ==
    IF s \in IsoFormatTexts THEN [ok |-> TRUE, value |-> DateOf(s)] ELSE [ok |-> FALSE]

\* Optional[int]
NoCount == [is_none |-> TRUE, value |-> 0]
SomeCount(n) == [is_none |-> FALSE, value |-> n]

\* the tail `\s+(.+)$` of both regular expressions, matched against the rest of
\* a line: the whitespace run is taken whole unless nothing would be left
match_space_then_rest(rest) ==
    LET w == PrefixLen(rest, Whitespace)
        after == SliceFrom(rest, w)
    IN  IF w = 0 THEN [ok |-> FALSE]
        ELSE IF after # <<>> THEN [ok |-> TRUE, text |-> after]
        ELSE IF w >= 2 THEN [ok |-> TRUE, text |-> <<rest[w]>>]
        ELSE [ok |-> FALSE]

\* re.match(r'^([a-f0-9]+)\s+(?:\(([^)]+)\)\s+)?(.+)$', line)
match_commit_line(line) ==
    LET h == PrefixLen(line, HexDigits)
        w == PrefixLen(SliceFrom(line, h), Whitespace)
        rest == SliceFrom(line, h + w)
        close == Find(rest, <<")">>)
        decorated == IF rest # <<>> /\ Head(rest) = "(" /\ close >= 3
                     THEN match_space_then_rest(SliceFrom(rest, close))
                     ELSE [ok |-> FALSE]
        plain == match_space_then_rest(SliceFrom(line, h))
    IN  IF h = 0 \/ w = 0 THEN [ok |-> FALSE]
        ELSE IF decorated.ok
        THEN [ok |-> TRUE, hash |-> SubSeq(line, 1, h),
              decorations |-> SubSeq(rest, 2, close - 1), message |-> decorated.text]
        ELSE IF plain.ok
        THEN [ok |-> TRUE, hash |-> SubSeq(line, 1, h),
              decorations |-> <<>>, message |-> plain.text]
        ELSE [ok |-> FALSE]

\* _get_commit_info: every exception is caught and an empty dict returned
get_commit_info(log, repo) ==
    LET g1 == Git(log, "log -1 --format=%an <%ae>|%ai", repo.commit_author)
        bar == Find(g1.stdout, <<"|">>)
        date == fromisoformat(replace_Z(SliceFrom(g1.stdout, bar)))
        g2 == Git(g1.log, "diff-tree --no-commit-id --name-only -r", repo.commit_files)
        files == Split(g2.stdout, "\n")
    IN  IF g1.raised \/ bar = 0 THEN [log |-> g1.log, found |-> FALSE]
        ELSE IF g2.raised THEN [log |-> g2.log, found |-> FALSE]
        ELSE [log |-> g2.log, found |-> TRUE,
              author |-> Strip(SubSeq(g1.stdout, 1, bar - 1)),
              date |-> IF date.ok THEN date.value ELSE Now,
              files_changed |->
                  Cardinality({i \in DOMAIN files : Strip(files[i]) # <<>>})]

\* commit_branch taking the decorations as they are
commit_branch_as_is(decorations) ==
    IF decorations # <<>> THEN Some(decorations) ELSE None

\* the branch of a commit, from its decorations
commit_branch(decorations) ==
    IF Contains(decorations, ScraperText.deco_arrow)
    THEN Some(Strip(SplitStr(decorations, ScraperText.deco_arrow)[2]))
    ELSE IF decorations # <<>> /\ ~Contains(decorations, ScraperText.HEAD) THEN Some(decorations)
    ELSE None

\* the loop of _parse_recent_commits
RECURSIVE parse_commit_lines(_, _, _, _)
parse_commit_lines(lines, commits, log, repo) ==
    LET commit_of(m, commit_info) ==
            [hash |-> m.hash,
             short_hash |-> SliceTo(m.hash, 7),
             message |-> m.message,
             author |-> IF commit_info.found THEN commit_info.author
                        ELSE ScraperText.Unknown_author,
             date |-> IF commit_info.found THEN commit_info.date ELSE Now,
             is_head |-> Contains(m.decorations, ScraperText.HEAD),
             branch |-> commit_branch(m.decorations),
             files_changed |-> IF commit_info.found
                               THEN SomeCount(commit_info.files_changed)
                               ELSE NoCount]
        with_info(m, commit_info) ==
            parse_commit_lines(Tail(lines), Append(commits, commit_of(m, commit_info)),
                               commit_info.log, repo)
        with_match(line, m) ==
            IF Strip(line) = <<>> \/ ~m.ok
            THEN parse_commit_lines(Tail(lines), commits, log, repo)
            ELSE with_info(m, get_commit_info(log, repo))
    IN  IF lines = <<>> THEN [log |-> log, commits |-> commits]
        ELSE with_match(Head(lines), match_commit_line(Head(lines)))

\* _parse_recent_commits giving up after the first line
parse_recent_commits_first_line_only(log_output, log, repo) ==
    parse_commit_lines(SubSeq(Split(log_output, "\n"), 1, 1), <<>>, log, repo)

\* _parse_recent_commits
parse_recent_commits(log_output, log, repo) ==
    parse_commit_lines(Split(log_output, "\n"), <<>>, log, repo)

\* re.match(r'^stash@{(\d+)}:\s+(.+)$', line)
match_stash_line(line) ==
    LET d == PrefixLen(SliceFrom(line, Len(ScraperText.stash_at)), Digits)
        after == SliceFrom(line, Len(ScraperText.stash_at) + d)
        tail == match_space_then_rest(SliceFrom(after, Len(ScraperText.stash_close)))
    IN  IF StartsWith(line, ScraperText.stash_at) /\ d >= 1 /\ StartsWith(after, ScraperText.stash_close)
           /\ tail.ok
        THEN [ok |-> TRUE,
              stash_id |-> ScraperText.stash_at \o SubSeq(line, Len(ScraperText.stash_at) + 1, Len(ScraperText.stash_at) + d)
                               \o <<"}">>,
              description |-> tail.text]
        ELSE [ok |-> FALSE]

\* _get_stash_creation_time: every exception is caught and the clock returned
get_stash_creation_time(log, repo) ==
    LET g1 == Git(log, "rev-parse stash@{n}", repo.stash_hash)
        g2 == Git(g1.log, "log -1 --format=%ai", repo.stash_date)
        date == fromisoformat(replace_Z(Strip(g2.stdout)))
    IN  IF g1.raised THEN [log |-> g1.log, created_at |-> Now]
        ELSE IF g2.raised \/ g2.stdout = <<>> \/ ~date.ok
        THEN [log |-> g2.log, created_at |-> Now]
        ELSE [log |-> g2.log, created_at |-> date.value]

\* stash_branch taking the whole description
stash_branch_whole(description) == description

\* the branch of a stash, from its description
stash_branch(description) ==
    IF Contains(description, ScraperText.on)
    THEN Split(SplitStr(description, ScraperText.on)[2], ":")[1]
    ELSE ScraperText.unknown_branch

\* the loop of _parse_stashes
RECURSIVE parse_stash_lines(_, _, _, _)
parse_stash_lines(lines, stashes, log, repo) ==
    LET with_time(m, t) ==
            parse_stash_lines(Tail(lines),
                              Append(stashes, [stash_id |-> m.stash_id,
                                               description |-> m.description,
                                               created_at |-> t.created_at,
                                               branch |-> stash_branch(m.description)]),
                              t.log, repo)
        with_match(line, m) ==
            IF Strip(line) = <<>> \/ ~m.ok
            THEN parse_stash_lines(Tail(lines), stashes, log, repo)
            ELSE with_time(m, get_stash_creation_time(log, repo))
    IN  IF lines = <<>> THEN [log |-> log, stashes |-> stashes]
        ELSE with_match(Head(lines), match_stash_line(Head(lines)))

\* _parse_stashes
parse_stashes(stash_output, log, repo) ==
    parse_stash_lines(Split(stash_output, "\n"), <<>>, log, repo)

\* _get_special_states dropping every flag when a command fails
get_special_states_all_or_nothing(log, repo) ==
    LET g1 == Git(log, "rev-parse HEAD", repo.rev_parse_head)
        g2 == Git(g1.log, "branch --contains", repo.branch_contains)
    IN  [log |-> g2.log,
         special_states |->
             IF g1.raised \/ g2.raised
             THEN [is_merging |-> FALSE, is_rebasing |-> FALSE, is_detached_head |-> FALSE]
             ELSE [is_merging |-> repo.MERGE_HEAD,
                   is_rebasing |-> (repo.rebase_merge \/ repo.rebase_apply),
                   is_detached_head |-> (Strip(g2.stdout) = <<>>)]]

\* _get_special_states: every exception is caught, the flags set so far are kept
get_special_states(log, repo) ==
    LET g1 == Git(log, "rev-parse HEAD", repo.rev_parse_head)
        g2 == Git(g1.log, "branch --contains", repo.branch_contains)
        flags == [is_merging |-> repo.MERGE_HEAD,
                  is_rebasing |-> (repo.rebase_merge \/ repo.rebase_apply),
                  is_detached_head |-> FALSE]
    IN  IF g1.raised THEN [log |-> g1.log, special_states |-> flags]
        ELSE IF g2.raised THEN [log |-> g2.log, special_states |-> flags]
        ELSE [log |-> g2.log,
              special_states |-> [flags EXCEPT !.is_detached_head = (Strip(g2.stdout) = <<>>)]]

(***************************************************************************)
(* StateScraper.scrape_state.                                              *)
(***************************************************************************)
NoSnapshot == [captured |-> FALSE]

\* what a call of scrape_state leaves behind: the commands it ran, the exception
\* it raised or the GitContext it returned
Raised(log, error) ==
    [calls |-> log.calls, failed |-> log.failed, error |-> error, returned |-> FALSE,
     context |-> NoSnapshot]

Returned(log, context) ==
    [calls |-> log.calls, failed |-> log.failed, error |-> NoError, returned |-> TRUE,
     context |-> context]

\* next((b for b in all_branches if b.name == current_branch_name), default)
first_branch_named(all_branches, current_branch_name, default) ==
    LET hits == {i \in DOMAIN all_branches : all_branches[i].name = current_branch_name}
    IN  IF hits = {} THEN default
        ELSE all_branches[CHOOSE i \in hits : \A j \in hits : i <= j]

\* scrape_state is written as its stages, last stage first; each stage takes
\* what the stages before it produced and hands on to the next one.

\* lines 736-769: the summary statistics, the conflict flag, GitContext(...)
build_context(special, acc) ==
    LET wd == acc.working_directory_status
        sa == acc.staging_area_status
        checked == GitContextInit(
                       [working_directory_status |-> wd,
                        staging_area_status |-> sa,
                        has_conflicts |-> (\E i \in DOMAIN wd : wd[i].has_conflicts),
                        total_files |-> Len(wd) + Len(sa),
                        modified_files |-> count_modified(wd),
                        staged_files |-> count_staged(sa),
                        untracked_files |-> count_untracked(wd)])
    IN  Returned(special.log,
                 [captured |-> TRUE,
                  is_git_repository |-> TRUE,
                  current_branch |-> acc.current_branch,
                  local_branches |-> acc.local_branches,
                  remote_branches |-> acc.remote_branches,
                  remotes |-> acc.remotes,
                  working_directory_status |-> checked.working_directory_status,
                  staging_area_status |-> checked.staging_area_status,
                  recent_commits |-> acc.recent_commits,
                  stashes |-> acc.stashes,
                  has_conflicts |-> checked.has_conflicts,
                  is_merging |-> special.special_states.is_merging,
                  is_rebasing |-> special.special_states.is_rebasing,
                  is_detached_head |-> special.special_states.is_detached_head,
                  total_files |-> checked.total_files,
                  modified_files |-> checked.modified_files,
                  staged_files |-> checked.staged_files,
                  untracked_files |-> checked.untracked_files])

\* lines 733-734: special states, after the stashes are parsed
after_stashes(parsed, repo, acc) ==
    build_context(get_special_states(parsed.log, repo),
                  [stashes |-> parsed.stashes] @@ acc)

\* lines 729-731: g is the outcome of `git stash list`
after_stash_list(g, repo, acc) ==
    IF g.raised THEN Raised(g.log, g.error)
    ELSE after_stashes(parse_stashes(g.stdout, g.log, repo), repo, acc)

\* line 730, after the commits are parsed
after_commits(parsed, repo, acc) ==
    after_stash_list(Git(parsed.log, "stash list", repo.stash_list), repo,
                     [recent_commits |-> parsed.commits] @@ acc)

\* lines 722-727: g is the outcome of `git log --max-count=N --oneline --decorate`
after_log(g, repo, acc) ==
    IF g.raised THEN Raised(g.log, g.error)
    ELSE after_commits(parse_recent_commits(g.stdout, g.log, repo), repo, acc)

\* lines 718-723: g is the outcome of `git status --porcelain`
after_status(g, repo, acc) ==
    IF g.raised THEN Raised(g.log, g.error)
    ELSE after_log(Git(g.log, "log --max-count --oneline --decorate", repo.log), repo,
                   parse_git_status(g.stdout) @@ acc)

\* lines 714-719: g is the outcome of `git branch -r`
after_branch_r(g, repo, acc) ==
    IF g.raised THEN Raised(g.log, g.error)
    ELSE after_status(Git(g.log, "status --porcelain", repo.status), repo,
                      [remote_branches |-> parse_remote_branches(g.stdout)] @@ acc)

\* lines 710-715: g is the outcome of `git remote -v`
after_remote_v(g, repo, acc) ==
    IF g.raised THEN Raised(g.log, g.error)
    ELSE after_branch_r(Git(g.log, "branch -r", repo.branch_r), repo,
                        [remotes |-> parse_remotes(g.stdout)] @@ acc)

\* the keyword arguments of the default record in the current-branch lookup
default_branch_kwargs(current_branch_name) ==
    [name |-> current_branch_name, is_current |-> TRUE]

\* lines 704-711: the default argument of next() is evaluated before the search
find_current_branch(log, repo, current_branch_name, all_branches) ==
    LET default == BranchInfoInit(default_branch_kwargs(current_branch_name))
    IN  IF ~default.ok THEN Raised(log, OtherError("ValidationError"))
        ELSE after_remote_v(
                 Git(log, "remote -v", repo.remote_v), repo,
                 [current_branch |-> first_branch_named(all_branches, current_branch_name,
                                                        default.value),
                  local_branches |-> all_branches])

\* lines 700-702: g is the outcome of `git branch -vv`
after_branch_vv(g, repo, current_branch_name) ==
    IF g.raised THEN Raised(g.log, g.error)
    ELSE find_current_branch(g.log, repo, current_branch_name, parse_branches(g.stdout))

\* after_show_current running the failed command a second time
after_show_current_retrying(g, repo) ==
    IF g.raised
    THEN Raised(Git(g.log, "branch --show-current", repo.show_current).log, g.error)
    ELSE after_branch_vv(Git(g.log, "branch -vv", repo.branch_vv), repo, Strip(g.stdout))

\* lines 696-701: g is the outcome of `git branch --show-current`
after_show_current(g, repo) ==
    IF g.raised THEN Raised(g.log, g.error)
    ELSE after_branch_vv(Git(g.log, "branch -vv", repo.branch_vv), repo, Strip(g.stdout))

EmptyLog == [calls |-> <<>>, failed |-> <<>>]

\* scrape_state: any exception is logged and raised again
scrape_state(repo) ==
    IF ~repo.cwd_in_repo THEN Raised(EmptyLog, OtherError("ValueError"))
    ELSE after_show_current(Git(EmptyLog, "branch --show-current", repo.show_current), repo)

\* ---- what Git answers in the repositories of the model
\* output texts of the Git commands
GitAnswers ==
    [main |-> <<"m", "a", "i", "n", "\n">>,
     branches_main_dev |->
         <<"*", " ", "m", "a", "i", "n", " ", "a", "1", "b", "2", "c", "3", "d", " ", "m", "\n", " ", " ", "d", "e", "v", " ", "a", "1", "b", "2", "c", "3", "d", " ", "m", "\n">>,
     branches_dev |->
         <<" ", " ", "d", "e", "v", " ", "a", "1", "b", "2", "c", "3", "d", " ", "m", "\n">>,
     remotes |->
         <<"o", "r", "i", "g", "i", "n", " ", "h", "t", "t", "p", "s", ":", "/", "/", "h", "/", "r", " ", "(", "f", "e", "t", "c", "h", ")", "\n", "o", "r", "i", "g", "i", "n", " ", "h", "t", "t", "p", "s", ":", "/", "/", "h", "/", "r", " ", "(", "p", "u", "s", "h", ")", "\n">>,
     remote_branches |->
         <<" ", " ", "o", "r", "i", "g", "i", "n", "/", "H", "E", "A", "D", " ", "-", ">", " ", "o", "r", "i", "g", "i", "n", "/", "m", "a", "i", "n", "\n", " ", " ", "o", "r", "i", "g", "i", "n", "/", "m", "a", "i", "n", "\n">>,
     status |-> <<" ", "M", " ", "f", "\n", "U", "U", " ", "g", "\n">>,
     log |->
         <<"a", "1", "b", "2", "c", "3", "d", " ", "(", "H", "E", "A", "D", " ", "-", ">", " ", "m", "a", "i", "n", ")", " ", "m", "\n">>,
     author |->
         <<"A", " ", "<", "a", "@", "h", ">", "|", "2", "0", "2", "4", "-", "0", "1", "-", "0", "1", "\n">>,
     files |-> <<"f", "\n">>,
     stashes |->
         <<"s", "t", "a", "s", "h", "@", "{", "0", "}", ":", " ", "W", "I", "P", " ", "o", "n", " ", "m", "a", "i", "n", ":", " ", "a", "1", "b", "2", "c", "3", "d", " ", "m", "\n">>,
     hash |-> <<"a", "1", "b", "2", "c", "3", "d", "\n">>,
     date |-> <<"2", "0", "2", "4", "-", "0", "1", "-", "0", "1", "\n">>,
     contains |-> <<"*", " ", "m", "a", "i", "n", "\n">>,
     fatal |->
         <<"f", "a", "t", "a", "l", ":", " ", "n", "o", "t", " ", "a", " ", "g", "i", "t", " ", "r", "e", "p", "o", "s", "i", "t", "o", "r", "y", "\n">>]

Ok(stdout) == [returncode |-> 0, stdout |-> stdout, stderr |-> <<>>, timed_out |-> FALSE]
Failure == [returncode |-> 128, stdout |-> <<>>, stderr |-> GitAnswers.fatal, timed_out |-> FALSE]
SilentFailure == [returncode |-> 1, stdout |-> <<>>, stderr |-> <<>>, timed_out |-> FALSE]
Timeout == [returncode |-> 0, stdout |-> <<>>, stderr |-> <<>>, timed_out |-> TRUE]

Repositories ==
    [cwd_in_repo : BOOLEAN,
     show_current : {Ok(GitAnswers.main), Ok(<<>>), Failure, Timeout},
     branch_vv : {Ok(GitAnswers.branches_main_dev), Ok(GitAnswers.branches_dev), SilentFailure},
     remote_v : {Ok(GitAnswers.remotes), Failure},
     branch_r : {Ok(GitAnswers.remote_branches), Failure},
     status : {Ok(GitAnswers.status), Failure},
     log : {Ok(GitAnswers.log), Failure},
     commit_author : {Ok(GitAnswers.author), Failure},
     commit_files : {Ok(GitAnswers.files)},
     stash_list : {Ok(GitAnswers.stashes), Failure},
     stash_hash : {Ok(GitAnswers.hash), Failure},
     stash_date : {Ok(GitAnswers.date)},
     rev_parse_head : {Ok(GitAnswers.hash)},
     branch_contains : {Ok(GitAnswers.contains)},
     MERGE_HEAD : {FALSE},
     rebase_merge : {FALSE},
     rebase_apply : {FALSE}]

NoScrape == [calls |-> <<>>, failed |-> <<>>, error |-> NoError, returned |-> FALSE,
             context |-> NoSnapshot]

ScrapeUnused ==
    /\ repository = [cwd_in_repo |-> TRUE]
    /\ scrape_pc = "idle"
    /\ scrape_result = NoScrape

(***************************************************************************)
(* StateScraper.get_quick_status.                                          *)
(***************************************************************************)

\* get_quick_status letting the failure of the status command through
get_quick_status_raising(answer) ==
    LET g == Git(EmptyLog, "status --short", answer)
        lines == Split(g.stdout, "\n")
    IN  [calls |-> g.log.calls,
         raised |-> g.raised,
         value |-> IF g.raised THEN ""
                   ELSE IF Strip(g.stdout) = <<>> THEN "Working directory clean"
                   ELSE ToString(Cardinality({i \in DOMAIN lines : Strip(lines[i]) # <<>>}))
                            \o " files with changes"]

\* get_quick_status: every exception is caught
get_quick_status(answer) ==
    LET g == Git(EmptyLog, "status --short", answer)
        lines == Split(g.stdout, "\n")
    IN  [calls |-> g.log.calls,
         raised |-> FALSE,
         value |-> IF g.raised THEN "Unable to determine status"
                   ELSE IF Strip(g.stdout) = <<>> THEN "Working directory clean"
                   ELSE ToString(Cardinality({i \in DOMAIN lines : Strip(lines[i]) # <<>>}))
                            \o " files with changes"]

(***************************************************************************)
(* StateScraper.__init__.  What is at <repository_path>/.git is an input:  *)
(* a directory, a file (as in a linked worktree) or nothing.               *)
(***************************************************************************)

\* _is_git_repository accepting anything named .git
is_git_repository_exists_only(git_dir) == git_dir # "missing"

\* _is_git_repository: git_dir.exists() and git_dir.is_dir()
is_git_repository(git_dir) == git_dir # "missing" /\ git_dir = "directory"

\* __init__: raises ValueError unless the path is a Git repository; it runs no
\* Git command
StateScraperInit(git_dir) ==
    IF ~is_git_repository(git_dir)
    THEN [calls |-> <<>>, raised |-> TRUE, value |-> "ValueError"]
    ELSE [calls |-> <<>>, raised |-> FALSE, value |-> "StateScraper"]

\* ---- the calls of the model and their state before and outside a call

\* the branch line `[* ]<name> [origin/<name>] [<a> ahead][, <b> behind]`
branch_line_text(a) ==
    a.mark \o a.name \o <<" ", "[">> \o <<"o", "r", "i", "g", "i", "n", "/">> \o a.name \o <<"]">>
        \o (IF a.ahead.text # <<>> THEN <<" ">> \o a.ahead.text \o <<" ">> \o ScraperText.ahead
            ELSE <<>>)
        \o (IF a.behind.text # <<>>
            THEN (IF a.ahead.text # <<>> THEN <<",">> ELSE <<>>)
                     \o <<" ">> \o a.behind.text \o <<" ">> \o ScraperText.behind
            ELSE <<>>)

\* the log line `<hex-hash> [(<decorations>)] <message>`
log_line_text(a) ==
    a.hash \o <<" ">>
        \o (IF a.decorations.text # <<>> THEN <<"(">> \o a.decorations.text \o <<")", " ">>
            ELSE <<>>)
        \o a.message

\* the identifier `stash@{n}` as `git stash list` prints it, for n < 100
stash_id_text(n) ==
    LET digit == <<"0", "1", "2", "3", "4", "5", "6", "7", "8", "9">>
    IN  ScraperText.stash_at
            \o (IF n < 10 THEN <<>> ELSE <<digit[(n \div 10) + 1]>>)
            \o <<digit[(n % 10) + 1], "}">>

CallArgs ==
    LET
        \* what `git status --short` answers: nothing, or one line per changed file, each
        \* ended by a newline; or it fails
        ShortStatusAnswers ==
            {Ok(<<>>), Failure, SilentFailure, Timeout}
                \cup {Ok(Join(ls, "\n") \o <<"\n">>) :
                          ls \in SeqUpTo({<<" ", "M", " ", "f">>, <<"?", "?", " ", "g">>,
                                          <<"A", " ", " ", "h">>, <<"U", "U", " ", "k">>},
                                         MaxLines + 1) \ {<<>>}}
        \* a count as it is written in a line, with its value; no text: the phrase is absent
        CountTexts ==
            {[text |-> <<>>, n |-> 0], [text |-> <<"1">>, n |-> 1], [text |-> <<"3">>, n |-> 3],
             [text |-> <<"1", "2">>, n |-> 12]}
        \* decorations of a log line (no text: the line has no parenthesised group), with
        \* the is_head flag and the branch lines 310-318 derive from them
        DecorationCases ==
            {[text |-> <<>>,
              is_head |-> FALSE, branch |-> None],
             [text |-> <<"H", "E", "A", "D", " ", "-", ">", " ", "m", "a", "i", "n">>,
              is_head |-> TRUE, branch |-> Some(<<"m", "a", "i", "n">>)],
             [text |-> <<"H", "E", "A", "D">>,
              is_head |-> TRUE, branch |-> None],
             [text |-> <<"t", "a", "g", ":", " ", "v", "1">>,
              is_head |-> FALSE, branch |-> Some(<<"t", "a", "g", ":", " ", "v", "1">>)],
             [text |-> <<"H", "E", "A", "D", " ", "-", ">", " ", "m", "a", "i", "n", ",", " ", "o", "r", "i", "g", "i", "n", "/", "m", "a", "i", "n">>,
              is_head |-> TRUE, branch |-> Some(<<"m", "a", "i", "n", ",", " ", "o", "r", "i", "g", "i", "n", "/", "m", "a", "i", "n">>)]}
        \* what `git status --porcelain` answers: one line `XY <path>` per changed file,
        \* each ended by a newline; or it fails
        PorcelainAnswers ==
            {Failure}
                \cup {Ok(Join(ls, "\n") \o <<"\n">>) :
                          ls \in SeqUpTo({<<" ", "M", " ", "f", "i", "l", "e", ".", "t", "x", "t">>,
                                          <<"M", " ", " ", "f", "i", "l", "e", ".", "t", "x", "t">>,
                                          <<"?", "?", " ", "g">>},
                                         MaxLines) \ {<<>>}}
    IN
        [op : {"get_quick_status"}, git_dir : {"directory", "file", "missing"},
         answer : ShortStatusAnswers]
        \cup
        [op : {"_parse_branches"}, git_dir : {"directory"},
         mark : {<<"*", " ">>, <<" ", " ">>, <<>>},
         name : {<<"m", "a", "i", "n">>, <<"d", "e", "v">>,
                 <<"f", "e", "a", "t", "u", "r", "e", "/", "x">>},
         ahead : CountTexts, behind : CountTexts]
        \cup
        [op : {"_parse_recent_commits"}, git_dir : {"directory"},
         hash : {<<"a", "1", "b", "2", "c", "3", "d">>, <<"0", "1", "2", "3", "4", "5", "6", "7", "8", "9", "a", "b", "c", "d", "e", "f">>},
         decorations : DecorationCases,
         message : {<<"F", "i", "x", " ", "b", "u", "g">>, <<"m", " ", "(", "x", ")">>},
         commit_author : {Ok(GitAnswers.author), Failure}]
        \cup
        [op : {"status --porcelain"}, git_dir : {"directory"}, answer : PorcelainAnswers]
        \cup
        [op : {"_parse_remotes"}, git_dir : {"directory"},
         lines : SeqUpTo([name : {<<"o", "r", "i", "g", "i", "n">>, <<"u", "p">>},
                          url : {ScraperText.https \o <<"h", "/", "r">>,
                                 <<"g", "i", "t", "@", "h", ":", "r">>},
                          operation : {ScraperText.fetch, ScraperText.push}],
                         MaxLines + 1)]
        \cup
        [op : {"_parse_stashes"}, git_dir : {"directory"},
         first : {0, 9},
         descriptions :
             SeqUpTo({[text |-> <<"W", "I", "P", " ", "o", "n", " ", "m", "a", "i", "n", ":", " ", "a", "1", "b", "2", "c", "3", "d", " ", "m">>,
                       branch |-> <<"m", "a", "i", "n">>],
                      [text |-> <<"O", "n", " ", "m", "a", "i", "n", ":", " ", "m", "s", "g">>,
                       branch |-> ScraperText.unknown_branch],
                      [text |-> <<"W", "I", "P", " ", "o", "n", " ", "f", "e", "a", "t", "u", "r", "e", "/", "x", ":", " ", "a", "1", "b", "2", "c", "3", "d", " ", "m">>,
                       branch |-> <<"f", "e", "a", "t", "u", "r", "e", "/", "x">>]},
                     MaxLines + 1),
         stash_hash : {Ok(GitAnswers.hash), Failure}]
        \cup
        [op : {"_parse_recent_commits(log_output)"}, git_dir : {"directory"},
         lines :
             SeqUpTo({[text |-> <<"a", "1", "b", "2", "c", "3", "d", " ", "(", "H", "E", "A", "D", " ", "-", ">", " ", "m", "a", "i", "n", ")", " ", "F", "i", "x", " ", "b", "u", "g">>,
                       valid |-> TRUE, hash |-> <<"a", "1", "b", "2", "c", "3", "d">>],
                      [text |-> <<"b", "2", "c", "3", "d", "4", "e", " ", "s", "e", "c", "o", "n", "d">>,
                       valid |-> TRUE, hash |-> <<"b", "2", "c", "3", "d", "4", "e">>],
                      [text |-> <<"n", "o", "t", " ", "a", " ", "c", "o", "m", "m", "i", "t">>,
                       valid |-> FALSE, hash |-> <<>>],
                      [text |-> <<"a", "1", "b", "2", "c", "3", "d">>,
                       valid |-> FALSE, hash |-> <<>>],
                      [text |-> <<" ", " ">>,
                       valid |-> FALSE, hash |-> <<>>]},
                     MaxLines + 1),
         commit_author : {Ok(GitAnswers.author), Ok(GitAnswers.main), Failure, Timeout}]
        \cup
        [op : {"_get_special_states"}, git_dir : {"directory"},
         MERGE_HEAD : BOOLEAN, rebase_merge : BOOLEAN, rebase_apply : BOOLEAN,
         rev_parse_head : {Ok(GitAnswers.hash), Failure, Timeout},
         branch_contains : {Ok(GitAnswers.contains), Ok(<<>>), Failure, Timeout}]
        \cup
        [op : {"_create_prompt"}, git_dir : {"directory"},
         user_request :
             {[text |-> <<"c", "o", "m", "m", "i", "t", " ", "m", "y", " ", "c", "h", "a", "n", "g", "e", "s">>,
               all_files |-> FALSE, lists |-> FALSE],
              [text |-> <<"S", "h", "o", "w", " ", "D", "i", "f", "f">>,
               all_files |-> FALSE, lists |-> FALSE],
              [text |-> <<"l", "i", "s", "t", " ", "a", "l", "l", " ", "f", "i", "l", "e", "s">>,
               all_files |-> TRUE, lists |-> FALSE],
              [text |-> <<"f", "i", "l", "e", " ", "d", "e", "t", "a", "i", "l", "s", " ", "a", "n", "d", " ", "s", "t", "a", "s", "h">>,
               all_files |-> FALSE, lists |-> TRUE],
              [text |-> <<"d", "e", "t", "a", "i", "l", "s", " ", "o", "f", " ", "R", "e", "m", "o", "t", "e", " ", "B", "r", "a", "n", "c", "h", "e", "s">>,
               all_files |-> FALSE, lists |-> TRUE]},
         working_directory_status : SeqUpTo(WorkingSamples, MaxFiles),
         staging_area_status : SeqUpTo(StagingSamples, MaxFiles),
         remote_branches : {<<<<"o", "r", "i", "g", "i", "n", "/", "m", "a", "i", "n">>>>},
         stashes : {<<stash_id_text(0)>>}]

NoCall == [calls |-> <<>>, raised |-> FALSE, value |-> ""]

CallUnused ==
    /\ call_args = [op |-> "none"]
    /\ call_pc = "args"
    /\ call_result = NoCall

(***************************************************************************)
(* GitAssistantMCP: LLMResponse validation, execution plan, execution.     *)
(***************************************************************************)
\* pieces of the command texts an LLM response can carry
CommandParts ==
    [reset_hard |-> <<"r", "e", "s", "e", "t", " ", "-", "-", "h", "a", "r", "d">>,
     push_force |-> <<"p", "u", "s", "h", " ", "-", "-", "f", "o", "r", "c", "e">>,
     clean_fd |-> <<"c", "l", "e", "a", "n", " ", "-", "f", "d">>,
     branch_D |-> <<"b", "r", "a", "n", "c", "h", " ", "-", "D">>,
     remote_remove |-> <<"r", "e", "m", "o", "t", "e", " ", "r", "e", "m", "o", "v", "e">>,
     status |-> <<"s", "t", "a", "t", "u", "s">>,
     commit_m |-> <<"c", "o", "m", "m", "i", "t", " ", "-", "m", " ", "'", "x", "'">>,
     C_dot |-> <<" ", "-", "C", " ", ".">>,
     no_pager |-> <<" ", "-", "-", "n", "o", "-", "p", "a", "g", "e", "r">>,
     HEAD1 |-> <<" ", "H", "E", "A", "D", "~", "1">>,
     ls |-> <<"l", "s", " ", "-", "l", "a">>,
     git_reset_hard_HEAD1 |->
         <<"g", "i", "t", " ", "r", "e", "s", "e", "t", " ", "-", "-", "h", "a", "r", "d", " ", "H", "E", "A", "D", "~", "1">>]

\* LLMResponse.validate_command: the stripped command, or a ValueError
validate_command(v) ==
    IF v = <<>> \/ Strip(v) = <<>> THEN [ok |-> FALSE, value |-> <<>>]
    ELSE IF ~StartsWith(Strip(v), <<"g", "i", "t", " ">>) THEN [ok |-> FALSE, value |-> <<>>]
    ELSE [ok |-> TRUE, value |-> Strip(v)]

\* the `dangerous_patterns` list of _prepare_execution_plan
dangerous_patterns ==
    {<<"g", "i", "t", " ", "r", "e", "s", "e", "t", " ", "-", "-", "h", "a", "r", "d">>,
     <<"g", "i", "t", " ", "p", "u", "s", "h", " ", "-", "-", "f", "o", "r", "c", "e">>,
     <<"g", "i", "t", " ", "c", "l", "e", "a", "n", " ", "-", "f", "d">>,
     <<"g", "i", "t", " ", "b", "r", "a", "n", "c", "h", " ", "-", "D">>,
     <<"g", "i", "t", " ", "r", "e", "m", "o", "t", "e", " ", "r", "e", "m", "o", "v", "e">>}

\* is_dangerous = any(pattern in command for pattern in dangerous_patterns)
is_dangerous(command) == \E pattern \in dangerous_patterns : Contains(command, pattern)

\* requires_confirmation reading the setting only
plan_requires_confirmation_setting_only(dangerous, setting) == setting

\* "requires_confirmation": is_dangerous or self.require_confirmation
plan_requires_confirmation(dangerous, setting) == dangerous \/ setting

\* _prepare_execution_plan: the plan, or a ValueError for a command without `git `
prepare_execution_plan(response, setting) ==
    LET command == Strip(response.command)
    IN  IF ~StartsWith(command, <<"g", "i", "t", " ">>) THEN [ok |-> FALSE]
        ELSE [ok |-> TRUE,
              command |-> command,
              is_destructive |-> is_dangerous(command) \/ response.is_destructive,
              requires_confirmation |->
                  plan_requires_confirmation(is_dangerous(command), setting),
              estimated_risk |-> IF is_dangerous(command) THEN "HIGH" ELSE "LOW"]

\* `confirmed = True  # TODO: Implement actual user confirmation`
confirmed == TRUE

\* _execute_command never asks anyone: no confirmation is ever obtained
ExplicitConfirmationObtained == FALSE

\* `if '"' in command or "'" in command` chooses shell=True
uses_shell(command) == Contains(command, <<"\"">>) \/ Contains(command, <<"'">>)

\* what subprocess.run can do with a command: exit with a code and the two
\* captured texts, run into the timeout, or fail to start
SubprocessOutcomes ==
    {[kind |-> "exit", returncode |-> 0, stdout |-> GitAnswers.files, stderr |-> <<>>],
     [kind |-> "exit", returncode |-> 128, stdout |-> <<>>, stderr |-> GitAnswers.fatal],
     [kind |-> "timeout", returncode |-> 0, stdout |-> <<>>, stderr |-> <<>>],
     [kind |-> "error", returncode |-> 0, stdout |-> <<>>, stderr |-> <<>>]}

\* the dictionary returned at lines 295-300
cancelled_result(plan) ==
    [executed |-> FALSE, reason |-> "User cancelled execution", command |-> plan.command]

\* the dictionary _execute_command returns once subprocess.run has been called
execute_result(plan, outcome) ==
    CASE outcome.kind = "exit" ->
             [executed |-> TRUE,
              success |-> (outcome.returncode = 0),
              command |-> plan.command,
              return_code |-> outcome.returncode,
              stdout |-> Strip(outcome.stdout),
              stderr |-> Strip(outcome.stderr),
              is_destructive |-> plan.is_destructive]
      [] outcome.kind = "timeout" ->
             [executed |-> FALSE, reason |-> "Command execution timed out",
              command |-> plan.command]
      [] OTHER ->
             [executed |-> FALSE, reason |-> "Execution error", command |-> plan.command]

\* the commands an LLM response can carry: `git`, an optional global option or a
\* second blank, a subcommand phrase and an optional argument; also untrimmed,
\* non-git and empty texts
CommandTexts ==
    LET GlobalOptions == {<<>>, CommandParts.C_dot, CommandParts.no_pager, <<" ">>}
        Phrases == {CommandParts.reset_hard, CommandParts.push_force, CommandParts.clean_fd,
                    CommandParts.branch_D, CommandParts.remote_remove, CommandParts.status,
                    CommandParts.commit_m}
        Arguments == {<<>>, CommandParts.HEAD1}
        GitCommands == {<<"g", "i", "t">> \o o \o <<" ">> \o p \o a :
                            o \in GlobalOptions, p \in Phrases, a \in Arguments}
    IN  GitCommands \cup {<<" ">> \o CommandParts.git_reset_hard_HEAD1 \o <<" ">>,
                          CommandParts.ls, <<>>}

\* _compile_response: success starts as True and is set to False only for a
\* command that was executed and did not succeed
compile_response(result) ==
    IF result.executed
    THEN IF result.success
         THEN [success |-> TRUE, message |-> "Command executed successfully",
               execution_result |-> result, output |-> result.stdout]
         ELSE [success |-> FALSE, message |-> "Command executed but failed",
               execution_result |-> result, error |-> result.stderr]
    ELSE [success |-> TRUE, message |-> "Command not executed",
          execution_result |-> result, reason |-> result.reason]

\* _create_error_response
create_error_response(error_message) ==
    [success |-> FALSE, error |-> error_message, message |-> "Failed to process request"]

NoReply == [success |-> FALSE, message |-> "no response"]

\* str.lower() on the letters A-Z
lower(s) ==
    LET upper == <<"A", "B", "C", "D", "E", "F", "G", "H", "I", "J", "K", "L", "M", "N", "O", "P", "Q", "R", "S", "T", "U", "V", "W", "X", "Y", "Z">>
        small == <<"a", "b", "c", "d", "e", "f", "g", "h", "i", "j", "k", "l", "m", "n", "o", "p", "q", "r", "s", "t", "u", "v", "w", "x", "y", "z">>
    IN  [i \in DOMAIN s |->
            IF \E k \in DOMAIN upper : upper[k] = s[i]
            THEN small[CHOOSE k \in DOMAIN upper : upper[k] = s[i]]
            ELSE s[i]]

\* _create_prompt up to the call of the template: the context dictionary, or the
\* AttributeError of git_context.to_summarized_dict(), a method GitContext lacks
create_prompt(request, context) ==
    LET any_keyword(keywords) == \E kw \in keywords : Contains(lower(request), kw)
        changed_files_only(files) ==
            SelectSeq(files, LAMBDA f : f.status \in {"modified", "deleted", "renamed",
                                                      "untracked"})
    IN
    IF any_keyword(
           {<<"f", "i", "l", "e">>,
             <<"d", "i", "f", "f">>,
             <<"b", "r", "a", "n", "c", "h", " ", "l", "i", "s", "t">>,
             <<"s", "h", "o", "w", " ", "a", "l", "l">>,
             <<"d", "e", "t", "a", "i", "l", "s">>})
    THEN LET all_files == any_keyword(
                 {<<"a", "l", "l", " ", "f", "i", "l", "e", "s">>,
             <<"l", "i", "s", "t", " ", "a", "l", "l", " ", "f", "i", "l", "e", "s">>,
             <<"e", "v", "e", "r", "y", " ", "f", "i", "l", "e">>})
             lists == any_keyword(
                 {<<"r", "e", "m", "o", "t", "e", " ", "b", "r", "a", "n", "c", "h">>,
             <<"r", "e", "m", "o", "t", "e", " ", "b", "r", "a", "n", "c", "h", "e", "s">>,
             <<"s", "h", "o", "w", " ", "s", "t", "a", "s", "h", "e", "s">>,
             <<"s", "t", "a", "s", "h">>,
             <<"l", "i", "s", "t", " ", "s", "t", "a", "s", "h", "e", "s">>})
         IN  [raised |-> FALSE,
              working_directory_status |->
                  IF all_files THEN context.working_directory_status
                  ELSE changed_files_only(context.working_directory_status),
              staging_area_status |->
                  IF all_files THEN context.staging_area_status
                  ELSE changed_files_only(context.staging_area_status),
              remote_branches |-> IF lists THEN context.remote_branches ELSE <<>>,
              stashes |-> IF lists THEN context.stashes ELSE <<>>]
    ELSE [raised |-> TRUE]

\* _gather_git_state, with s the outcome of its call of scrape_state: a
\* GitCommandError is turned into a RuntimeError, any other exception passed on
gather_git_state(s) ==
    IF s.error.kind = "GitCommandError"
    THEN [s EXCEPT !.error = OtherError("RuntimeError")]
    ELSE s

\* process_request running the command although an earlier step failed
process_request_executing_anyway(g, args, setting, outcome) ==
    [scrape |-> g,
     calls |-> <<[command |-> args.command, shell |-> uses_shell(args.command),
                  outcome |-> outcome]>>,
     response |-> create_error_response(g.error.kind)]

\* process_request: g is the outcome of _gather_git_state, args what the LLM
\* answers, outcome what subprocess.run does with the command; every exception
\* of a step ends in _create_error_response
process_request(g, args, setting, outcome) ==
    IF ~g.returned
    THEN [scrape |-> g, calls |-> <<>>, response |-> create_error_response(g.error.kind)]
    ELSE IF ~validate_command(args.command).ok
    THEN [scrape |-> g, calls |-> <<>>, response |-> create_error_response("RuntimeError")]
    ELSE IF ~prepare_execution_plan(
                 [command |-> validate_command(args.command).value,
                  is_destructive |-> args.is_destructive], setting).ok
    THEN [scrape |-> g, calls |-> <<>>, response |-> create_error_response("ValueError")]
    ELSE LET plan == prepare_execution_plan(
                         [command |-> validate_command(args.command).value,
                          is_destructive |-> args.is_destructive], setting)
         IN  IF plan.requires_confirmation /\ ~confirmed
             THEN [scrape |-> g, calls |-> <<>>,
                   response |-> compile_response(cancelled_result(plan))]
             ELSE [scrape |-> g,
                   calls |-> <<[command |-> plan.command, shell |-> uses_shell(plan.command),
                                outcome |-> outcome]>>,
                   response |-> compile_response(execute_result(plan, outcome))]

(***************************************************************************)
(* LLMProviderFactory.  A settings field is modelled by whether it is      *)
(* non-empty; a provider object by its class name and by whether its       *)
(* api_key and model_name attributes are non-empty.                        *)
(***************************************************************************)

\* provider_class(self.settings): GeminiProvider.__init__ copies the settings and
\* validates nothing; OpenAIProvider.__init__ runs _validate_configuration first,
\* which raises ValueError when the key or the model name is empty
provider_init(provider_name, s) ==
    IF provider_name = "gemini"
    THEN [raised |-> FALSE, error |-> "",
          provider |-> [name |-> "gemini", api_key |-> s.google_api_key, model_name |-> TRUE]]
    ELSE IF ~s.openai_api_key \/ ~s.openai_model_name
         THEN [raised |-> TRUE, error |-> "ValueError",
               provider |-> [name |-> "None", api_key |-> FALSE, model_name |-> FALSE]]
         ELSE [raised |-> FALSE, error |-> "",
               provider |-> [name |-> "openai", api_key |-> TRUE, model_name |-> TRUE]]

\* provider.is_available(): OpenAIProvider returns bool(self.api_key and
\* self.model_name); GeminiProvider has no base class and defines no such method,
\* so the attribute lookup raises AttributeError
is_available(provider) ==
    IF provider.name = "gemini"
    THEN [raised |-> TRUE, error |-> "AttributeError", value |-> FALSE]
    ELSE [raised |-> FALSE, error |-> "", value |-> provider.api_key /\ provider.model_name]

\* get_available_providers: in PROVIDER_PRIORITY order, the providers whose
\* temporary instance is created and reports available; any exception skips one
get_available_providers(s) ==
    LET PROVIDER_PRIORITY == <<"gemini", "openai">>
        reports_available(provider_name) ==
            LET temp_provider == provider_init(provider_name, s)
            IN  /\ ~temp_provider.raised
                /\ ~is_available(temp_provider.provider).raised
                /\ is_available(temp_provider.provider).value
    IN  SelectSeq(PROVIDER_PRIORITY, reports_available)

\* _create_provider: ValueError for a name outside provider_map, RuntimeError
\* when the constructor raises
create_provider(provider_name, s) ==
    IF provider_name \notin {"gemini", "openai"}
    THEN [raised |-> TRUE, error |-> "ValueError",
          provider |-> [name |-> "None", api_key |-> FALSE, model_name |-> FALSE]]
    ELSE LET p == provider_init(provider_name, s)
         IN  IF p.raised THEN [p EXCEPT !.error = "RuntimeError"] ELSE p

\* get_provider(force_provider), with force_provider "None" for a call without
\* one: what it returns or raises, and self._current_provider afterwards
get_provider(current, force_provider, s) ==
    IF force_provider # "None"
    THEN LET p == create_provider(force_provider, s)
         IN  [raised |-> p.raised, error |-> p.error, provider |-> p.provider,
              current |-> current]
    ELSE IF current.name # "None" /\ is_available(current).raised
    THEN [raised |-> TRUE, error |-> is_available(current).error,
          provider |-> [name |-> "None", api_key |-> FALSE, model_name |-> FALSE],
          current |-> current]
    ELSE IF current.name # "None" /\ is_available(current).value
    THEN [raised |-> FALSE, error |-> "", provider |-> current, current |-> current]
    ELSE LET available_providers == get_available_providers(s)
         IN  IF available_providers = <<>>
             THEN [raised |-> TRUE, error |-> "RuntimeError",
                   provider |-> [name |-> "None", api_key |-> FALSE, model_name |-> FALSE],
                   current |-> current]
             ELSE LET p == create_provider(available_providers[1], s)
                  IN  [raised |-> p.raised, error |-> p.error, provider |-> p.provider,
                       current |-> IF p.raised THEN current ELSE p.provider]

\* a factory nobody constructed
ProviderUnused ==
    /\ settings = [google_api_key |-> FALSE, openai_api_key |-> FALSE,
                   openai_model_name |-> FALSE]
    /\ current_provider = [name |-> "None", api_key |-> FALSE, model_name |-> FALSE]
    /\ provider_calls = <<>>

NoResponse == [command |-> <<>>, is_destructive |-> FALSE]
NoPlan == [ok |-> FALSE]
NoResult == [executed |-> FALSE, reason |-> "not called", command |-> <<>>]

ExecUnused ==
    /\ llm_args = NoResponse
    /\ require_confirmation = TRUE
    /\ exec_pc = "args"
    /\ llm_response = NoResponse
    /\ execution_plan = NoPlan
    /\ execution_result = NoResult
    /\ subprocess_calls = <<>>
    /\ returned_response = NoReply

(***************************************************************************)
(* Specification of the status parser: a text is chosen, then parsed.      *)
(***************************************************************************)
InitStatus ==
    /\ status_output \in StatusTexts
    /\ status_pc = "input"
    /\ working_directory_status = <<>>
    /\ staging_area_status = <<>>
    /\ ctx_args = [working_directory_status |-> <<>>, staging_area_status |-> <<>>,
                   has_conflicts |-> FALSE, total_files |-> 0, modified_files |-> 0,
                   staged_files |-> 0, untracked_files |-> 0]
    /\ ctx_pc = "args"
    /\ git_context = NoContext
    /\ ExecUnused
    /\ ScrapeUnused
    /\ CallUnused
    /\ ProviderUnused

ParseGitStatus ==
    /\ status_pc = "input"
    /\ LET r == parse_git_status(status_output)
       IN  /\ working_directory_status' = r.working_directory_status
           /\ staging_area_status' = r.staging_area_status
    /\ status_pc' = "parsed"
    /\ UNCHANGED <<status_output, ctxVars, execVars, scrapeVars, callVars, providerVars>>

NextStatus == ParseGitStatus

SpecStatus == InitStatus /\ [][NextStatus]_vars

(***************************************************************************)
(* Specification of the GitContext constructor.                            *)
(***************************************************************************)
InitContext ==
    /\ status_output = <<>>
    /\ status_pc = "input"
    /\ working_directory_status = <<>>
    /\ staging_area_status = <<>>
    /\ ctx_args \in ContextArgs
    /\ ctx_pc = "args"
    /\ git_context = NoContext
    /\ ExecUnused
    /\ ScrapeUnused
    /\ CallUnused
    /\ ProviderUnused

ConstructGitContext ==
    /\ ctx_pc = "args"
    /\ git_context' = GitContextInit(ctx_args)
    /\ ctx_pc' = "constructed"
    /\ UNCHANGED <<ctx_args, statusVars, execVars, scrapeVars, callVars, providerVars>>

NextContext == ConstructGitContext

SpecContext == InitContext /\ [][NextContext]_vars

(***************************************************************************)
(* Specification of the command path: an LLM response is constructed,      *)
(* planned and executed.                                                   *)
(***************************************************************************)
StatusUnused ==
    /\ status_output = <<>>
    /\ status_pc = "input"
    /\ working_directory_status = <<>>
    /\ staging_area_status = <<>>

CtxUnused ==
    /\ ctx_args = [working_directory_status |-> <<>>, staging_area_status |-> <<>>,
                   has_conflicts |-> FALSE, total_files |-> 0, modified_files |-> 0,
                   staged_files |-> 0, untracked_files |-> 0]
    /\ ctx_pc = "args"
    /\ git_context = NoContext

InitExec ==
    /\ StatusUnused
    /\ CtxUnused
    /\ llm_args \in [command : CommandTexts, is_destructive : BOOLEAN]
    /\ require_confirmation \in BOOLEAN
    /\ exec_pc = "args"
    /\ llm_response = NoResponse
    /\ execution_plan = NoPlan
    /\ execution_result = NoResult
    /\ subprocess_calls = <<>>
    /\ returned_response = NoReply
    /\ ScrapeUnused
    /\ CallUnused
    /\ ProviderUnused

\* LLMResponse(command=..., is_destructive=...)
CreateLLMResponse ==
    /\ exec_pc = "args"
    /\ LET c == validate_command(llm_args.command)
       IN  IF c.ok
           THEN /\ llm_response' = [command |-> c.value,
                                    is_destructive |-> llm_args.is_destructive]
                /\ exec_pc' = "response"
           ELSE /\ llm_response' = llm_response
                /\ exec_pc' = "error"
    /\ UNCHANGED <<llm_args, require_confirmation, execution_plan, execution_result,
                   subprocess_calls, returned_response, statusVars, ctxVars, scrapeVars, callVars,
                   providerVars>>

\* _prepare_execution_plan
PrepareExecutionPlan ==
    /\ exec_pc = "response"
    /\ LET plan == prepare_execution_plan(llm_response, require_confirmation)
       IN  /\ execution_plan' = plan
           /\ exec_pc' = IF plan.ok THEN "planned" ELSE "error"
    /\ UNCHANGED <<llm_args, require_confirmation, llm_response, execution_result,
                   subprocess_calls, returned_response, statusVars, ctxVars, scrapeVars, callVars,
                   providerVars>>

\* _execute_command
ExecuteCommand ==
    /\ exec_pc = "planned"
    /\ IF execution_plan.requires_confirmation /\ ~confirmed
       THEN /\ execution_result' = cancelled_result(execution_plan)
            /\ subprocess_calls' = subprocess_calls
       ELSE \E outcome \in SubprocessOutcomes :
                /\ subprocess_calls' =
                       Append(subprocess_calls,
                              [command |-> execution_plan.command,
                               shell |-> uses_shell(execution_plan.command),
                               outcome |-> outcome])
                /\ execution_result' = execute_result(execution_plan, outcome)
    /\ exec_pc' = "done"
    /\ UNCHANGED <<llm_args, require_confirmation, llm_response, execution_plan,
                   returned_response, statusVars, ctxVars, scrapeVars, callVars,
                   providerVars>>

\* _compile_response
CompileResponse ==
    /\ exec_pc = "done"
    /\ returned_response' = compile_response(execution_result)
    /\ exec_pc' = "compiled"
    /\ UNCHANGED <<llm_args, require_confirmation, llm_response, execution_plan,
                   execution_result, subprocess_calls, statusVars, ctxVars, scrapeVars,
                   callVars,
                   providerVars>>

NextExec == CreateLLMResponse \/ PrepareExecutionPlan \/ ExecuteCommand \/ CompileResponse

SpecExec == InitExec /\ [][NextExec]_vars

(***************************************************************************)
(* Specification of the scraper: a repository is chosen, then scrape_state *)
(* is called on it.                                                        *)
(***************************************************************************)
Init ==
    /\ StatusUnused
    /\ CtxUnused
    /\ ExecUnused
    /\ repository \in Repositories
    /\ scrape_pc = "idle"
    /\ scrape_result = NoScrape
    /\ CallUnused
    /\ ProviderUnused

\* scrape_state
ScrapeState ==
    /\ scrape_pc = "idle"
    /\ scrape_result' = scrape_state(repository)
    /\ scrape_pc' = "done"
    /\ UNCHANGED <<repository, statusVars, ctxVars, execVars, callVars, providerVars>>

\* process_request
ProcessRequest ==
    /\ scrape_pc = "idle"
    /\ scrape_result' = gather_git_state(scrape_state(repository))
    /\ \E args \in [command : {<<"g", "i", "t", " ">> \o CommandParts.status,
                                CommandParts.git_reset_hard_HEAD1, CommandParts.ls, <<>>},
                     is_destructive : BOOLEAN],
          setting \in BOOLEAN, outcome \in SubprocessOutcomes :
           LET r == process_request(scrape_result', args, setting, outcome)
           IN  /\ subprocess_calls' = r.calls
               /\ returned_response' = r.response
    /\ scrape_pc' = "responded"
    /\ UNCHANGED <<repository, llm_args, require_confirmation, exec_pc, llm_response,
                   execution_plan, execution_result, statusVars, ctxVars, callVars,
                   providerVars>>

Next == ScrapeState \/ ProcessRequest

Spec == Init /\ [][Next]_vars

(***************************************************************************)
(* Specification of single calls of StateScraper methods: the method and   *)
(* its input are chosen, a scraper is constructed, the method is called.   *)
(***************************************************************************)
InitCalls ==
    /\ StatusUnused
    /\ CtxUnused
    /\ ExecUnused
    /\ ScrapeUnused
    /\ call_args \in CallArgs
    /\ call_pc = "args"
    /\ call_result = NoCall
    /\ ProviderUnused

\* StateScraper(repository_path): a method can only be called on the object
\* this returns
Construct ==
    /\ call_pc = "args"
    /\ call_result' = StateScraperInit(call_args.git_dir)
    /\ call_pc' = IF call_result'.raised THEN "failed" ELSE "constructed"
    /\ UNCHANGED <<call_args, statusVars, ctxVars, execVars, scrapeVars, providerVars>>

\* get_quick_status
GetQuickStatus ==
    /\ call_pc = "constructed"
    /\ call_args.op = "get_quick_status"
    /\ call_result' = get_quick_status(call_args.answer)
    /\ call_pc' = "done"
    /\ UNCHANGED <<call_args, statusVars, ctxVars, execVars, scrapeVars, providerVars>>

\* _parse_branches on one branch line
ParseBranches ==
    /\ call_pc = "constructed"
    /\ call_args.op = "_parse_branches"
    /\ call_result' = [calls |-> <<>>, raised |-> FALSE,
                       value |-> parse_branches(branch_line_text(call_args))]
    /\ call_pc' = "done"
    /\ UNCHANGED <<call_args, statusVars, ctxVars, execVars, scrapeVars, providerVars>>

\* _parse_recent_commits on one log line
ParseRecentCommits ==
    /\ call_pc = "constructed"
    /\ call_args.op = "_parse_recent_commits"
    /\ LET parsed == parse_recent_commits(
                         log_line_text(call_args), EmptyLog,
                         [commit_author |-> call_args.commit_author,
                          commit_files |-> Ok(GitAnswers.files)])
       IN  call_result' = [calls |-> parsed.log.calls, raised |-> FALSE,
                           value |-> parsed.commits]
    /\ call_pc' = "done"
    /\ UNCHANGED <<call_args, statusVars, ctxVars, execVars, scrapeVars, providerVars>>

\* the file status step of scrape_state: _run_git_command(['status',
\* '--porcelain']), then _parse_git_status on what it returned
StatusStage ==
    /\ call_pc = "constructed"
    /\ call_args.op = "status --porcelain"
    /\ LET g == Git(EmptyLog, "status --porcelain", call_args.answer)
       IN  call_result' =
               [calls |-> g.log.calls, raised |-> g.raised,
                value |-> IF g.raised THEN parse_git_status(<<>>)
                          ELSE parse_git_status(g.stdout)]
    /\ call_pc' = "done"
    /\ UNCHANGED <<call_args, statusVars, ctxVars, execVars, scrapeVars, providerVars>>

\* _parse_remotes on the lines `<name>\t<url> (<operation>)` that `git remote -v`
\* prints, each ended by a newline
ParseRemotes ==
    /\ call_pc = "constructed"
    /\ call_args.op = "_parse_remotes"
    /\ LET printed == [i \in DOMAIN call_args.lines |->
                          call_args.lines[i].name \o <<"\t">> \o call_args.lines[i].url
                              \o <<" ", "(">> \o call_args.lines[i].operation
                              \o <<")">>]
       IN  call_result' = [calls |-> <<>>, raised |-> FALSE,
                           value |-> parse_remotes(Join(printed, "\n") \o <<"\n">>)]
    /\ call_pc' = "done"
    /\ UNCHANGED <<call_args, statusVars, ctxVars, execVars, scrapeVars, providerVars>>

\* _parse_stashes on the lines `stash@{n}: <description>` that `git stash list`
\* prints, numbered upwards from the first, each ended by a newline
ParseStashes ==
    /\ call_pc = "constructed"
    /\ call_args.op = "_parse_stashes"
    /\ LET printed == [i \in DOMAIN call_args.descriptions |->
                          stash_id_text(call_args.first + i - 1) \o <<":", " ">>
                              \o call_args.descriptions[i].text]
           parsed == parse_stashes(Join(printed, "\n") \o <<"\n">>, EmptyLog,
                                   [stash_hash |-> call_args.stash_hash,
                                    stash_date |-> Ok(GitAnswers.date)])
       IN  call_result' = [calls |-> parsed.log.calls, raised |-> FALSE,
                           value |-> parsed.stashes]
    /\ call_pc' = "done"
    /\ UNCHANGED <<call_args, statusVars, ctxVars, execVars, scrapeVars, providerVars>>

\* _parse_recent_commits on a log output of several lines, some of them not
\* commit lines
ParseLogOutput ==
    /\ call_pc = "constructed"
    /\ call_args.op = "_parse_recent_commits(log_output)"
    /\ LET parsed == parse_recent_commits(
                         Join([i \in DOMAIN call_args.lines |-> call_args.lines[i].text],
                              "\n"),
                         EmptyLog,
                         [commit_author |-> call_args.commit_author,
                          commit_files |-> Ok(GitAnswers.files)])
       IN  call_result' = [calls |-> parsed.log.calls, raised |-> FALSE,
                           value |-> parsed.commits]
    /\ call_pc' = "done"
    /\ UNCHANGED <<call_args, statusVars, ctxVars, execVars, scrapeVars, providerVars>>

\* _get_special_states: call_args says which marker paths exist and what the two
\* commands answer
GetSpecialStates ==
    /\ call_pc = "constructed"
    /\ call_args.op = "_get_special_states"
    /\ LET checked == get_special_states(EmptyLog, call_args)
       IN  call_result' = [calls |-> checked.log.calls, raised |-> FALSE,
                           value |-> checked.special_states]
    /\ call_pc' = "done"
    /\ UNCHANGED <<call_args, statusVars, ctxVars, execVars, scrapeVars, providerVars>>

\* _create_prompt for a request and a GitContext with the file lists, one
\* remote branch and one stash of call_args; a request comes with what it asks for
CreatePrompt ==
    /\ call_pc = "constructed"
    /\ call_args.op = "_create_prompt"
    /\ LET git_context_dict == create_prompt(call_args.user_request.text, call_args)
       IN  call_result' = [calls |-> <<>>, raised |-> git_context_dict.raised,
                           value |-> git_context_dict]
    /\ call_pc' = "done"
    /\ UNCHANGED <<call_args, statusVars, ctxVars, execVars, scrapeVars, providerVars>>

NextCalls ==
    \/ Construct
    \/ GetQuickStatus
    \/ ParseBranches
    \/ ParseRecentCommits
    \/ StatusStage
    \/ ParseRemotes
    \/ ParseStashes
    \/ ParseLogOutput
    \/ GetSpecialStates
    \/ CreatePrompt

SpecCalls == InitCalls /\ [][NextCalls]_vars

(***************************************************************************)
(* Specification of the provider factory: a factory is constructed on some *)
(* settings, then get_provider and refresh_provider are called on it, and  *)
(* update_settings on the provider it caches.                              *)
(***************************************************************************)
\* LLMProviderFactory(settings)
InitProvider ==
    /\ StatusUnused
    /\ CtxUnused
    /\ ExecUnused
    /\ ScrapeUnused
    /\ CallUnused
    /\ settings \in [google_api_key : BOOLEAN, openai_api_key : BOOLEAN,
                     openai_model_name : BOOLEAN]
    /\ current_provider = [name |-> "None", api_key |-> FALSE, model_name |-> FALSE]
    /\ provider_calls = <<>>

\* get_provider() and get_provider(force_provider)
GetProvider ==
    /\ Len(provider_calls) < MaxCalls
    /\ \E force_provider \in {"None", "gemini", "openai", "anthropic"} :
           LET r == get_provider(current_provider, force_provider, settings)
           IN  /\ current_provider' = r.current
               /\ provider_calls' =
                      Append(provider_calls,
                             [op |-> "get_provider", force_provider |-> force_provider,
                              cached |-> current_provider, raised |-> r.raised,
                              error |-> r.error, provider |-> r.provider,
                              current |-> r.current])
    /\ UNCHANGED <<settings, statusVars, ctxVars, execVars, scrapeVars, callVars>>

\* refresh_provider: forgets the cached provider, then get_provider()
RefreshProvider ==
    /\ Len(provider_calls) < MaxCalls
    /\ LET r == get_provider([name |-> "None", api_key |-> FALSE, model_name |-> FALSE],
                             "None", settings)
       IN  /\ current_provider' = r.current
           /\ provider_calls' =
                  Append(provider_calls,
                         [op |-> "refresh_provider", force_provider |-> "None",
                          cached |-> current_provider, raised |-> r.raised,
                          error |-> r.error, provider |-> r.provider,
                          current |-> r.current])
    /\ UNCHANGED <<settings, statusVars, ctxVars, execVars, scrapeVars, callVars>>

\* update_settings(new_settings) on the cached OpenAIProvider: its api_key and
\* model_name become those of new_settings
UpdateSettings ==
    /\ current_provider.name = "openai"
    /\ \E new_settings \in [openai_api_key : BOOLEAN, openai_model_name : BOOLEAN] :
           /\ current_provider' = [current_provider EXCEPT
                                       !.api_key = new_settings.openai_api_key,
                                       !.model_name = new_settings.openai_model_name]
           /\ current_provider' # current_provider
    /\ UNCHANGED <<settings, provider_calls, statusVars, ctxVars, execVars, scrapeVars,
                   callVars>>

NextProvider == GetProvider \/ RefreshProvider \/ UpdateSettings

SpecProvider == InitProvider /\ [][NextProvider]_vars

(***************************************************************************)
(* Claims about the status parser (checked under SpecStatus).              *)
(***************************************************************************)
InputLines == Split(status_output, "\n")
ParsedEntries == Range(working_directory_status) \cup Range(staging_area_status)

\* the category table of the specification
CategoryOf(c) ==
    CASE c = "M" -> "modified" [] c = "A" -> "added" [] c = "D" -> "deleted"
      [] c = "R" -> "renamed" [] c = "C" -> "copied" [] c = "U" -> "unmerged"
      [] c = "?" -> "untracked" [] OTHER -> "unknown"

\* a line the parser does not skip
IsEntryLine(line) == Strip(line) # <<>> /\ SliceFrom(line, 3) # <<>>

\* C4: every entry of category untracked has staged=false and tracked=false, and
\* the line `?? <path>` yields one working-tree entry with category untracked,
\* staged=false, tracked=false and no change-origin tag.
C4_UntrackedNeverStaged ==
    status_pc = "parsed" =>
        /\ \A e \in ParsedEntries :
               e.status = "untracked" => ~e.is_staged /\ ~e.is_tracked
        /\ status_output = UntrackedLine =>
               /\ Len(working_directory_status) = 1
               /\ working_directory_status[1].status = "untracked"
               /\ ~working_directory_status[1].is_staged
               /\ ~working_directory_status[1].is_tracked
               /\ working_directory_status[1].change_type = "None"

\* C5: a line with a non-space index char and a space worktree char yields an
\* entry with the category of the index char, staged, tracked, origin "staged",
\* in the staging-area list only; a line with a space index char and a worktree
\* char that is neither space nor `?` yields an entry with the category of the
\* worktree char, not staged, tracked, origin "unstaged", in the working-tree
\* list only.
C5_StagedAndUnstagedLines ==
    status_pc = "parsed" =>
        \A i \in DOMAIN InputLines :
            LET line == InputLines[i]
                path == SliceFrom(line, 3)
            IN  IsEntryLine(line) =>
                    /\ (line[1] # " " /\ line[2] = " ") =>
                           /\ \E e \in Range(staging_area_status) :
                                  /\ e.file_path = path
                                  /\ e.status = CategoryOf(line[1])
                                  /\ e.is_staged /\ e.is_tracked
                                  /\ e.change_type = "staged"
                           /\ \A e \in Range(working_directory_status) :
                                  ~(e.file_path = path /\ e.change_type = "staged")
                    /\ (line[1] = " " /\ line[2] \notin {" ", "?"}) =>
                           /\ \E e \in Range(working_directory_status) :
                                  /\ e.file_path = path
                                  /\ e.status = CategoryOf(line[2])
                                  /\ ~e.is_staged /\ e.is_tracked
                                  /\ e.change_type = "unstaged"
                           /\ \A e \in Range(staging_area_status) :
                                  ~(e.file_path = path /\ e.change_type = "unstaged")

\* C5 witness: `M  f` then ` D f` parsed: one staged entry, one unstaged entry.
C5_Witness ==
    /\ status_pc = "parsed"
    /\ status_output = Join(<<<<"M", " ", " ", "f">>, <<" ", "D", " ", "f">>>>, "\n")
    /\ Len(staging_area_status) = 1
    /\ staging_area_status[1].status = "modified"
    /\ staging_area_status[1].change_type = "staged"
    /\ Len(working_directory_status) = 1
    /\ working_directory_status[1].status = "deleted"
    /\ working_directory_status[1].change_type = "unstaged"

(***************************************************************************)
(* Claims about the GitContext constructor (checked under SpecContext).    *)
(***************************************************************************)
AnyWorkingConflict(ctx) ==
    \E i \in DOMAIN ctx.working_directory_status :
        ctx.working_directory_status[i].has_conflicts

\* C6 (as claimed): has_conflicts of a constructed GitContext is true if and
\* only if some working-tree entry has has_conflicts=true.
C6_ConflictsIffEntries ==
    ctx_pc = "constructed" =>
        (git_context.has_conflicts <=> AnyWorkingConflict(git_context))

\* C6 (amended): has_conflicts of a constructed GitContext is true whenever some
\* working-tree entry has has_conflicts=true (a supplied false is overridden);
\* when no working-tree entry has it, the supplied value is kept.
C6_ConflictsRaisedOnly ==
    ctx_pc = "constructed" =>
        /\ AnyWorkingConflict(git_context) => git_context.has_conflicts
        /\ ~AnyWorkingConflict(git_context) =>
               git_context.has_conflicts = ctx_args.has_conflicts

\* C6 witness: a supplied false overridden by a conflicting working-tree entry.
C6_Witness ==
    /\ ctx_pc = "constructed"
    /\ ~ctx_args.has_conflicts
    /\ AnyWorkingConflict(git_context)
    /\ git_context.has_conflicts

\* C8: whatever counts were supplied, modified_files, staged_files and
\* untracked_files of a constructed GitContext equal the counts of its lists.
C8_CountsMatchLists ==
    ctx_pc = "constructed" =>
        /\ git_context.modified_files =
               Cardinality({i \in DOMAIN git_context.working_directory_status :
                   git_context.working_directory_status[i].status
                       \in {"modified", "deleted", "renamed"}})
        /\ git_context.staged_files =
               Cardinality({i \in DOMAIN git_context.staging_area_status :
                   git_context.staging_area_status[i].is_staged})
        /\ git_context.untracked_files =
               Cardinality({i \in DOMAIN git_context.working_directory_status :
                   git_context.working_directory_status[i].status = "untracked"})

\* C8 witness: all three supplied counts are wrong and are corrected.
C8_Witness ==
    /\ ctx_pc = "constructed"
    /\ ctx_args.modified_files # git_context.modified_files
    /\ ctx_args.staged_files # git_context.staged_files
    /\ ctx_args.untracked_files # git_context.untracked_files
    /\ git_context.modified_files = 1
    /\ git_context.staged_files = 1
    /\ git_context.untracked_files = 1

(***************************************************************************)
(* Claims about the command path (checked under SpecExec).                 *)
(***************************************************************************)
HasPlan == exec_pc \in {"planned", "done"}

\* the substrings the specification lists as destructive
DestructiveSubstrings ==
    {CommandParts.reset_hard, CommandParts.push_force, CommandParts.clean_fd, CommandParts.branch_D, CommandParts.remote_remove}

\* C1: a command whose plan requires confirmation is not handed to the
\* subprocess unless an explicit confirmation was obtained; without one the
\* result is executed=false.
C1_NoExecutionWithoutConfirmation ==
    (exec_pc = "done" /\ execution_plan.requires_confirmation
         /\ ~ExplicitConfirmationObtained) =>
        /\ subprocess_calls = <<>>
    /\ returned_response = NoReply
        /\ ~execution_result.executed

\* C9: every command that contains one of the destructive substrings, wherever
\* it occurs, is planned with is_destructive=true and estimated_risk HIGH.
C9_SubstringAnywhereIsDestructive ==
    (HasPlan /\ \E d \in DestructiveSubstrings : Contains(execution_plan.command, d)) =>
        /\ execution_plan.is_destructive
        /\ execution_plan.estimated_risk = "HIGH"

\* C10: a command matching a dangerous pattern (such as
\* `git reset --hard HEAD~1`) is planned with is_destructive=true and
\* requires_confirmation=true, whatever the require_confirmation setting and the
\* LLM response's is_destructive flag are.
C10_DangerousAlwaysConfirmed ==
    (HasPlan /\ (execution_plan.command = CommandParts.git_reset_hard_HEAD1
                     \/ \E pattern \in dangerous_patterns :
                            Contains(execution_plan.command, pattern))) =>
        /\ execution_plan.is_destructive
        /\ execution_plan.requires_confirmation

\* C10 witness: `git reset --hard HEAD~1` planned with the setting off and the
\* LLM flag off.
C10_Witness ==
    /\ exec_pc = "planned"
    /\ execution_plan.command = CommandParts.git_reset_hard_HEAD1
    /\ ~require_confirmation
    /\ ~llm_response.is_destructive
    /\ execution_plan.is_destructive
    /\ execution_plan.requires_confirmation

\* the command of the plan was handed to subprocess.run, which answered `kind`
Ran(kinds) ==
    /\ exec_pc = "done"
    /\ subprocess_calls # <<>>
    /\ subprocess_calls[1].outcome.kind \in kinds

\* C11: when the command was run and exited non-zero or timed out,
\* _execute_command returns a result that carries the exit code and the captured
\* stderr and differs from the result of a declined confirmation.
C11_FailureCarriesCodeAndStderr ==
    (Ran({"exit", "timeout"})
         /\ (subprocess_calls[1].outcome.kind = "exit"
                 => subprocess_calls[1].outcome.returncode # 0)) =>
        /\ {"return_code", "stderr"} \subseteq DOMAIN execution_result
        /\ (subprocess_calls[1].outcome.kind = "exit" =>
                /\ execution_result.return_code = subprocess_calls[1].outcome.returncode
                /\ execution_result.stderr = Strip(subprocess_calls[1].outcome.stderr))
        /\ execution_result # cancelled_result(execution_plan)

(***************************************************************************)
(* Claims about scrape_state, checked under Spec.                          *)
(***************************************************************************)

C3_AllSucceedReturnsContext ==
    (scrape_pc = "done" /\ repository.cwd_in_repo /\ scrape_result.failed = <<>>) =>
        /\ scrape_result.returned
        /\ LET name == Strip(repository.show_current.stdout)
               branches == scrape_result.context.local_branches
               current == scrape_result.context.current_branch
               hits == {i \in DOMAIN branches : branches[i].name = name}
           IN  IF hits # {}
               THEN current = branches[CHOOSE i \in hits : \A j \in hits : i <= j]
               ELSE current.name = name /\ current.is_current

\* C12: _run_git_command returns the (stripped) stdout exactly when the
\* subprocess exits with code zero; on a non-zero exit it raises GitCommandError
\* with the full command line, the stripped stderr (`Unknown error` when that is
\* empty) and the exit code; on a timeout it raises GitCommandError with the full
\* command line, `Command timed out` and return code -1.
C12_RunGitCommandOutcomes ==
    \A i \in DOMAIN scrape_result.calls :
        LET c == scrape_result.calls[i]
        IN  IF c.answer.timed_out
            THEN /\ c.raised
                 /\ c.error = [kind |-> "GitCommandError",
                               command |-> "git " \o c.command,
                               error_output |-> ScraperText.timed_out,
                               return_code |-> -1]
            ELSE IF c.answer.returncode # 0
            THEN /\ c.raised
                 /\ c.error.kind = "GitCommandError"
                 /\ c.error.command = "git " \o c.command
                 /\ c.error.return_code = c.answer.returncode
                 /\ c.error.error_output =
                        (IF Strip(c.answer.stderr) = <<>> THEN ScraperText.unknown_error
                         ELSE Strip(c.answer.stderr))
            ELSE /\ ~c.raised
                 /\ c.error = NoError
                 /\ c.stdout = Strip(c.answer.stdout)

\* `git branch --show-current` answered `main` and exit code 0, then
\* `git branch -vv` exited with 1 and an empty stderr
C12_Witness ==
    /\ scrape_pc = "done"
    /\ Len(scrape_result.calls) = 2
    /\ scrape_result.calls[1].answer.returncode = 0
    /\ scrape_result.calls[1].stdout = <<"m", "a", "i", "n">>
    /\ scrape_result.calls[2].answer.returncode = 1
    /\ scrape_result.calls[2].error.error_output = ScraperText.unknown_error
    /\ scrape_result.calls[2].error.command = "git branch -vv"

(***************************************************************************)
(* Claims about single calls of StateScraper methods, checked under        *)
(* SpecCalls.                                                              *)
(***************************************************************************)
Called(op) == call_pc = "done" /\ call_args.op = op

\* C13: get_quick_status never raises; it returns `Working directory clean` when
\* the status command succeeds with an empty output, `<n> files with changes`
\* with n the number of non-blank lines of the output when there are any, and
\* `Unable to determine status` when the command exits non-zero or times out.
C13_QuickStatusNeverRaises ==
    Called("get_quick_status") =>
        LET answer == call_args.answer
            lines == Split(answer.stdout, "\n")
            n == Cardinality({i \in DOMAIN lines :
                                  \E j \in DOMAIN lines[i] : lines[i][j] \notin Whitespace})
        IN  /\ ~call_result.raised
            /\ call_result.value =
                   (IF answer.timed_out \/ answer.returncode # 0
                    THEN "Unable to determine status"
                    ELSE IF answer.stdout = <<>> THEN "Working directory clean"
                    ELSE ToString(n) \o " files with changes")

\* `git status --short` answered the two lines ` M f` and `?? g`
C13_Witness ==
    /\ Called("get_quick_status")
    /\ call_args.answer.stdout = <<" ", "M", " ", "f", "\n", "?", "?", " ", "g", "\n">>
    /\ call_result.value = "2 files with changes"
    /\ ~call_result.raised

\* C14: constructing a StateScraper on a path without a `.git` directory fails
\* in the constructor, before any Git command is run, and no method is ever
\* called on that path.
C14_NoScraperWithoutGitDir ==
    (call_args.git_dir # "directory") =>
        /\ call_pc \in {"args", "failed"}
        /\ call_result.calls = <<>>
        /\ (call_pc = "failed" => call_result.raised /\ call_result.value = "ValueError")

\* the constructor has raised on a path where `.git` is a file
C14_Witness ==
    /\ call_args.git_dir = "file"
    /\ call_pc = "failed"
    /\ call_result.raised
    /\ call_result.calls = <<>>

\* C15: a branch line `[* ]<name> [<remote>/<branch>] [<a> ahead][, <b> behind]`
\* is parsed into one record with is_current true iff the line starts with `* `,
\* the name, has_remote=true, ahead_count=a and behind_count=b (0 for an absent
\* phrase) and is_up_to_date true iff both counts are zero; `* main [origin/main]
\* 3 ahead, 1 behind` gives current, main, remote_name main, 3, 1, not up to date.
C15_BranchLineParsed ==
    Called("_parse_branches") =>
        /\ Len(call_result.value) = 1
        /\ LET b == call_result.value[1]
           IN  /\ b.is_current = (call_args.mark = <<"*", " ">>)
               /\ b.name = call_args.name
               /\ b.has_remote
               /\ b.ahead_count = call_args.ahead.n
               /\ b.behind_count = call_args.behind.n
               /\ b.is_up_to_date = (call_args.ahead.n = 0 /\ call_args.behind.n = 0)
               /\ (branch_line_text(call_args) =
                       <<"*", " ", "m", "a", "i", "n", " ", "[", "o", "r", "i", "g", "i",
                         "n", "/", "m", "a", "i", "n", "]", " ", "3", " ", "a", "h", "e",
                         "a", "d", ",", " ", "1", " ", "b", "e", "h", "i", "n", "d">>
                   => /\ b.is_current /\ b.name = <<"m", "a", "i", "n">>
                      /\ b.remote_name = Some(<<"m", "a", "i", "n">>)
                      /\ b.ahead_count = 3 /\ b.behind_count = 1 /\ ~b.is_up_to_date)

\* `* main [origin/main] 3 ahead, 1 behind` has been parsed
C15_Witness ==
    /\ Called("_parse_branches")
    /\ call_args.mark = <<"*", " ">> /\ call_args.name = <<"m", "a", "i", "n">>
    /\ call_args.ahead.n = 3 /\ call_args.behind.n = 1
    /\ Len(call_result.value) = 1
    /\ call_result.value[1].ahead_count = 3
    /\ call_result.value[1].behind_count = 1
    /\ ~call_result.value[1].is_up_to_date

\* C16: a log line `<hex-hash> [(<decorations>)] <message>` is parsed into one
\* commit with that hash, the message after the optional parenthesised group,
\* is_head true iff the decorations contain `HEAD`, and branch the trimmed text
\* after `->` if the decorations contain `->`, else the decorations if there are
\* any and they do not contain `HEAD`, else none; `a1b2c3d (HEAD -> main) Fix bug`
\* gives a1b2c3d, is_head, branch main, message `Fix bug`.
C16_LogLineParsed ==
    Called("_parse_recent_commits") =>
        /\ Len(call_result.value) = 1
        /\ LET c == call_result.value[1]
           IN  /\ c.hash = call_args.hash
               /\ c.message = call_args.message
               /\ c.is_head = call_args.decorations.is_head
               /\ c.branch = call_args.decorations.branch
               /\ (log_line_text(call_args) =
                       <<"a", "1", "b", "2", "c", "3", "d", " ", "(", "H", "E", "A", "D", " ",
                         "-", ">", " ", "m", "a", "i", "n", ")", " ", "F", "i", "x", " ", "b",
                         "u", "g">>
                   => /\ c.hash = <<"a", "1", "b", "2", "c", "3", "d">>
                      /\ c.is_head
                      /\ c.branch = Some(<<"m", "a", "i", "n">>)
                      /\ c.message = <<"F", "i", "x", " ", "b", "u", "g">>)

\* `a1b2c3d (HEAD -> main) Fix bug` has been parsed, the author lookup having failed
C16_Witness ==
    /\ Called("_parse_recent_commits")
    /\ call_args.hash = <<"a", "1", "b", "2", "c", "3", "d">>
    /\ call_args.decorations.branch = Some(<<"m", "a", "i", "n">>)
    /\ call_args.message = <<"F", "i", "x", " ", "b", "u", "g">>
    /\ call_args.commit_author.returncode # 0
    /\ Len(call_result.value) = 1
    /\ call_result.value[1].is_head
    /\ call_result.value[1].branch = Some(<<"m", "a", "i", "n">>)

\* the primary queries of scrape_state, in the order of the claim
PrimaryQueries ==
    <<"branch --show-current", "branch -vv", "remote -v", "branch -r",
      "status --porcelain", "log --max-count --oneline --decorate", "stash list">>

\* the primary queries among the commands a call of scrape_state ran, as positions
\* in PrimaryQueries
RECURSIVE PrimaryStages(_)
PrimaryStages(calls) ==
    IF calls = <<>> THEN <<>>
    ELSE LET hits == {k \in DOMAIN PrimaryQueries : PrimaryQueries[k] = Head(calls).command}
         IN  (IF hits = {} THEN <<>> ELSE <<CHOOSE k \in hits : TRUE>>)
                 \o PrimaryStages(Tail(calls))

C18_StatusLinesParsedAsPrinted ==
    (Called("status --porcelain") /\ ~call_result.raised) =>
        LET lines == Split(call_args.answer.stdout, "\n")
        IN  \A i \in DOMAIN lines :
                (SliceTo(lines[i], 3) = <<" ", "M", " ">>) =>
                    /\ \E e \in Range(call_result.value.working_directory_status) :
                           /\ e.file_path = SliceFrom(lines[i], 3)
                           /\ e.status = "modified"
                           /\ ~e.is_staged
                           /\ e.change_type = "unstaged"
                    /\ \A e \in Range(call_result.value.staging_area_status) :
                           e.file_path # SliceFrom(lines[i], 3)

\* C20: every execution plan with is_destructive true also has
\* requires_confirmation true, also when no dangerous pattern matches, only the
\* LLM response says destructive and the require_confirmation setting is off.
C20_DestructiveAlwaysConfirmed ==
    (HasPlan /\ execution_plan.ok /\ execution_plan.is_destructive) =>
        execution_plan.requires_confirmation

\* C22: the response has success=false whenever the generated command did not
\* complete successfully: after a timeout or an exception of the execution just
\* as after a non-zero exit.
C22_FailedCommandIsNotSuccess ==
    (/\ exec_pc = "compiled"
     /\ subprocess_calls # <<>>
     /\ \/ subprocess_calls[1].outcome.kind \in {"timeout", "error"}
        \/ subprocess_calls[1].outcome.returncode # 0) =>
        ~returned_response.success

RECURSIVE EntriesOfLines(_, _)
EntriesOfLines(lines, column) ==
    IF lines = <<>> THEN <<>>
    ELSE (IF IsEntryLine(Head(lines)) /\ Head(lines)[column] # " "
          THEN <<create_file_status(SliceFrom(Head(lines), 3), Head(lines)[1],
                                    Head(lines)[2])>>
          ELSE <<>>)
             \o EntriesOfLines(Tail(lines), column)

\* C23 as amended: the working-tree list holds, in input order, the entries of
\* the lines whose worktree char is not a space, the staging-area list those of
\* the lines whose index char is not a space (a line with both is in both);
\* blank lines, lines with an empty path and lines whose two status chars are
\* both spaces produce no entry; empty input yields two empty lists.
C23_ListsFollowStatusChars ==
    status_pc = "parsed" =>
        /\ working_directory_status = EntriesOfLines(InputLines, 2)
        /\ staging_area_status = EntriesOfLines(InputLines, 1)
        /\ status_output = <<>> =>
               working_directory_status = <<>> /\ staging_area_status = <<>>

\* C23 as stated: in addition, the only lines that produce no entry are blank
\* lines and lines whose path is empty.
C23_OnlyBlankOrPathlessDropped ==
    status_pc = "parsed" =>
        /\ working_directory_status = EntriesOfLines(InputLines, 2)
        /\ staging_area_status = EntriesOfLines(InputLines, 1)
        /\ \A i \in DOMAIN InputLines :
               IsEntryLine(InputLines[i]) =>
                   create_file_status(SliceFrom(InputLines[i], 3), InputLines[i][1],
                                      InputLines[i][2]) \in ParsedEntries

\* `MM f` then `A  f` have been parsed: the first is in both lists, the second
\* in the staging area only, in this order
C23_Witness ==
    /\ status_pc = "parsed"
    /\ InputLines = <<<<"M", "M", " ">> \o PlainPath, <<"A", " ", " ">> \o PlainPath>>
    /\ Len(working_directory_status) = 1
    /\ Len(staging_area_status) = 2
    /\ staging_area_status[1] = working_directory_status[1]
    /\ staging_area_status[2] # staging_area_status[1]

\* C24: for a local branch line whose second token is `[<remote>/<rest>]`, the
\* remote name of the record is the part of the annotation before its first
\* `/`: `origin` for `[origin/feature/x]`.
C24_RemoteNameBeforeSlash ==
    Called("_parse_branches") =>
        /\ Len(call_result.value) = 1
        /\ call_result.value[1].remote_name = Some(<<"o", "r", "i", "g", "i", "n">>)

\* the first line of the input that names the remote
FirstLineOf(name) ==
    CHOOSE i \in DOMAIN call_args.lines :
        /\ call_args.lines[i].name = name
        /\ \A j \in 1..(i - 1) : call_args.lines[j].name # name

\* C25: _parse_remotes returns one record per distinct remote name, in the order
\* of the names' first appearance; url and url_type are those of the first line
\* of the name, is_default_pull is true iff some line of the name has `(fetch)`
\* and is_default_push iff some line of the name has `(push)`.
C25_OneRecordPerRemote ==
    Called("_parse_remotes") =>
        LET lines == call_args.lines
            remotes == call_result.value
        IN  /\ Len(remotes) = Cardinality({lines[i].name : i \in DOMAIN lines})
            /\ {remotes[k].name : k \in DOMAIN remotes} = {lines[i].name : i \in DOMAIN lines}
            /\ \A j, k \in DOMAIN remotes :
                   j < k => FirstLineOf(remotes[j].name) < FirstLineOf(remotes[k].name)
            /\ \A k \in DOMAIN remotes :
                   LET first == lines[FirstLineOf(remotes[k].name)]
                   IN  /\ remotes[k].url = first.url
                       /\ remotes[k].url_type = (IF first.url[1] = "h" THEN "https" ELSE "ssh")
                       /\ remotes[k].is_default_pull =
                              (\E i \in DOMAIN lines :
                                   /\ lines[i].name = remotes[k].name
                                   /\ lines[i].operation = ScraperText.fetch)
                       /\ remotes[k].is_default_push =
                              (\E i \in DOMAIN lines :
                                   /\ lines[i].name = remotes[k].name
                                   /\ lines[i].operation = ScraperText.push)

\* `up` (fetch), `origin` (fetch), then `up` (push) with another url: two records,
\* `up` first with the url of its first line and both flags
C25_Witness ==
    /\ Called("_parse_remotes")
    /\ Len(call_args.lines) = 3
    /\ call_args.lines[1].name = <<"u", "p">>
    /\ call_args.lines[2].name # <<"u", "p">>
    /\ call_args.lines[3].name = <<"u", "p">>
    /\ call_args.lines[3].url # call_args.lines[1].url
    /\ call_args.lines[1].operation = ScraperText.fetch
    /\ call_args.lines[3].operation = ScraperText.push
    /\ Len(call_result.value) = 2
    /\ call_result.value[1].name = <<"u", "p">>
    /\ call_result.value[1].url = call_args.lines[1].url
    /\ call_result.value[1].is_default_pull
    /\ call_result.value[1].is_default_push

\* C26: _parse_stashes returns, in input order, one entry per line
\* `stash@{N}: <description>`, with identifier `stash@{N}` and as branch the
\* description text between ` on ` and the following `:`, or `unknown` when
\* the description has no ` on `; the identifiers of a result are pairwise
\* distinct.
C26_StashEntriesInOrder ==
    Called("_parse_stashes") =>
        LET stashes == call_result.value
        IN  /\ Len(stashes) = Len(call_args.descriptions)
            /\ \A k \in DOMAIN stashes :
                   /\ stashes[k].stash_id = stash_id_text(call_args.first + k - 1)
                   /\ stashes[k].description = call_args.descriptions[k].text
                   /\ stashes[k].branch = call_args.descriptions[k].branch
            /\ \A j, k \in DOMAIN stashes :
                   j # k => stashes[j].stash_id # stashes[k].stash_id

\* `stash@{9}: On main: msg`, `stash@{10}: WIP on feature/x: a1b2c3d m` and a
\* third line have been parsed while the creation time lookups fail
C26_Witness ==
    /\ Called("_parse_stashes")
    /\ call_args.first = 9
    /\ call_args.stash_hash.returncode # 0
    /\ Len(call_result.value) = 3
    /\ call_result.value[1].branch = ScraperText.unknown_branch
    /\ call_result.value[2].stash_id =
           <<"s", "t", "a", "s", "h", "@", "{", "1", "0", "}">>
    /\ call_result.value[2].branch = <<"f", "e", "a", "t", "u", "r", "e", "/", "x">>

\* the hashes of the commit lines among the lines, in input order
RECURSIVE HashesOfCommitLines(_)
HashesOfCommitLines(lines) ==
    IF lines = <<>> THEN <<>>
    ELSE (IF Head(lines).valid THEN <<Head(lines).hash>> ELSE <<>>)
             \o HashesOfCommitLines(Tail(lines))

\* C27: _parse_recent_commits does not raise, whatever the text and whatever
\* the secondary lookups do: a line that is not a commit line is skipped, the
\* other lines are still parsed, and the commits are in the order of their lines.
C27_BadLogLinesSkipped ==
    Called("_parse_recent_commits(log_output)") =>
        /\ ~call_result.raised
        /\ [k \in DOMAIN call_result.value |-> call_result.value[k].hash]
               = HashesOfCommitLines(call_args.lines)

\* `not a commit`, `b2c3d4e second`, `a1b2c3d (HEAD -> main) Fix bug` parsed
\* while the author lookup times out: the two commits, in this order
C27_Witness ==
    /\ Called("_parse_recent_commits(log_output)")
    /\ Len(call_args.lines) = 3
    /\ ~call_args.lines[1].valid /\ call_args.lines[1].text # <<>>
    /\ call_args.commit_author.timed_out
    /\ Len(call_result.value) = 2
    /\ call_result.value[1].hash = <<"b", "2", "c", "3", "d", "4", "e">>
    /\ call_result.value[2].hash = <<"a", "1", "b", "2", "c", "3", "d">>
    /\ call_result.value[2].author = ScraperText.Unknown_author

\* C28: _get_special_states does not raise; when the HEAD resolution or the
\* branch-containment query fails, is_detached_head is false while is_merging
\* and is_rebasing still tell whether the merge and rebase marker paths exist;
\* when both queries succeed, is_detached_head is true iff the
\* branch-containment output is empty.
C28_SpecialStatesDegrade ==
    Called("_get_special_states") =>
        LET flags == call_result.value
            failed == \/ answer_failed(call_args.rev_parse_head)
                      \/ answer_failed(call_args.branch_contains)
        IN  /\ ~call_result.raised
            /\ flags.is_merging = call_args.MERGE_HEAD
            /\ flags.is_rebasing = (call_args.rebase_merge \/ call_args.rebase_apply)
            /\ failed => ~flags.is_detached_head
            /\ ~failed =>
                   (flags.is_detached_head = (Strip(call_args.branch_contains.stdout) = <<>>))

\* during a merge, the HEAD resolution succeeded and the branch-containment
\* query timed out: is_merging is kept, is_detached_head is false
C28_Witness ==
    /\ Called("_get_special_states")
    /\ call_args.MERGE_HEAD
    /\ ~answer_failed(call_args.rev_parse_head)
    /\ call_args.branch_contains.timed_out
    /\ Len(call_result.calls) = 2
    /\ call_result.value.is_merging
    /\ ~call_result.value.is_detached_head

\* C29: for every request, building the context for the prompt does not fail;
\* the context holds a file entry only if its category is modified, deleted,
\* renamed or untracked, unless the request asks for all files, and holds
\* non-empty remote-branch and stash lists only if the request mentions them.
C29_PromptContextBuilt ==
    Called("_create_prompt") =>
        /\ ~call_result.raised
        /\ ~call_args.user_request.all_files =>
               \A f \in Range(call_result.value.working_directory_status)
                            \cup Range(call_result.value.staging_area_status) :
                   f.status \in {"modified", "deleted", "renamed", "untracked"}
        /\ (call_result.value.remote_branches # <<>> \/ call_result.value.stashes # <<>>)
               => call_args.user_request.lists

(***************************************************************************)
(* Claims about the provider factory (checked under SpecProvider).         *)
(***************************************************************************)
\* C30: a get_provider call without a forced name returns the cached provider
\* when that one reports available; otherwise it caches and returns gemini when
\* the Gemini key is configured together with OpenAI's key and model name, openai
\* when only OpenAI is configured, and raises RuntimeError when neither is;
\* a call with a forced name leaves the cached provider as it was.
C30_FirstAvailableByPriorityCached ==
    \A i \in DOMAIN provider_calls :
        LET c == provider_calls[i]
            openai_configured == settings.openai_api_key /\ settings.openai_model_name
        IN  c.op = "get_provider" =>
                IF c.force_provider # "None"
                THEN c.current = c.cached
                ELSE IF c.cached.name # "None" /\ c.cached.api_key /\ c.cached.model_name
                THEN ~c.raised /\ c.provider = c.cached /\ c.current = c.cached
                ELSE IF settings.google_api_key /\ openai_configured
                THEN ~c.raised /\ c.provider.name = "gemini" /\ c.current = c.provider
                ELSE IF openai_configured
                THEN ~c.raised /\ c.provider.name = "openai" /\ c.current = c.provider
                ELSE IF ~settings.google_api_key
                THEN c.raised /\ c.error = "RuntimeError" /\ c.current = c.cached
                ELSE TRUE

=============================================================================
